---- MODULE Spec2Model ----
(***************************************************************************)
(* A model of the RAAM client: one RAAM instance (a publisher, which is     *)
(* also a RAAMReader), the ledger it publishes to and reads from, and the   *)
(* push stream that feeds its subscriptions.                                *)
(*                                                                          *)
(* Optional values (a JavaScript value that may be undefined) are written   *)
(* as sequences: <<>> is undefined and <<v>> is the value v.  A message is  *)
(* a sequence of one-character strings, so the empty message is <<>> and a  *)
(* cache cell holding it is << <<>> >>.                                     *)
(***************************************************************************)
EXTENDS Integers, Sequences, FiniteSets, TLC

\* ------------------------------------------------------------------ bounds
Height == 1
MaxLedger == 2
MaxSigned == 2
MaxSubs == 1
\* the key security of the channel
Security == 1
\* timestamps a foreign bundle may carry
MaxTime == 2
\* the stream: addresses watched, bundles in flight, handles given out
MaxAddresses == 2
MaxBundles == 2
MaxHandles == 2
\* the last index of the channel a subscription follows, the callbacks a
\* following reader has registered at a time, and its subscribe and
\* unsubscribe calls
MaxChain == 3
MaxFollow == 2
MaxCalls == 2
\* the fragments a framed payload is brought close to, and how close
MaxFragments == 2
Window == 12
\* the heights framed besides the highest
MaxCodecHeight == 2
\* the key fragments of one security level (27 in sign.js)
KeyFragments == 1
\* the highest merkle tree built
MaxTreeHeight == 3

\* ------------------------------------------------------- program constants
INDEX_TRYTES == 6
MESSAGE_LENGTH_TRYTES == 3
SECURITY_TRYTES == 1
HEIGHT_TRYTES == 1
PREFIX_LENGTH ==
  INDEX_TRYTES + MESSAGE_LENGTH_TRYTES + SECURITY_TRYTES + HEIGHT_TRYTES
MESSAGE_FRAGMENT_TRYTES == 2187
SIGNATURE_TRYTES_PER_SECURITY == 2187
\* trytes of one hash per security level
HASH_TRYTES == 81
\* the highest tree createTransfers accepts
MAX_HEIGHT == 26

\* ------------------------------------------------------------ value domains
Capacity == 2 ^ Height
Indexes == 0 .. (Capacity - 1)
\* indexes a caller passes to the publisher: one below and one above the range
PublishIndexes == {0 - 1} \cup Indexes \cup {Capacity}
\* indexes a caller passes to fetch and subscribe: one beyond the capacity
ReadIndexes == 0 .. Capacity

alphabet ==
  {"9", "A", "B", "C", "D", "E", "F", "G", "H", "I", "J", "K", "L", "M",
   "N", "O", "P", "Q", "R", "S", "T", "U", "V", "W", "X", "Y", "Z"}

\* messages a caller passes: the empty one, a tryte string, one that is not
TryteMessages == {<<>>, <<"A">>}
CallerMessages == TryteMessages \cup {<<"a">>}

\* nextRoot as the publisher receives it: undefined or the root of a channel
NextRoots == {"undefined", "R"}
\* the key a record is encrypted with: the channel's default key (channel
\* password or channel root) or the public-mode password
Keys == {"default", "public"}

Opt(S) == {<<>>} \cup {<<x>> : x \in S}

\* the addresses the stream carries records of, and the bundles: bundle id
\* has the records 0 .. id, all at one address
Addresses == 1 .. MaxAddresses
BundleIds == 1 .. MaxBundles
lastIndex(id) == id
addressOf(id) == ((id - 1) % MaxAddresses) + 1
\* a record of the stream as the handler reads it
RecordsOf(id) ==
  {[bundle |-> id, currentIndex |-> k, lastIndex |-> lastIndex(id),
    address |-> addressOf(id)] : k \in 0 .. lastIndex(id)}
Records == UNION {RecordsOf(id) : id \in BundleIds}
\* the callbacks a caller registers, by what they do when invoked: nothing
\* to the subscriptions, unsubscribe themselves, or unsubscribe the callback
\* registered first at their address
Callbacks == {"keeps", "leaves", "ousts"}

\* the (index, start, end) options a caller passes to fetch and subscribe:
\* index alone or with an end, or a start with or without an end
ReadRequests ==
  {r \in [index : Opt(ReadIndexes), start : Opt(ReadIndexes),
          end : Opt(ReadIndexes)] : r.index = <<>> \/ r.start = <<>>}
\* a single index, or nothing at all (the whole channel)
IndexRequests == {r \in ReadRequests : r.start = <<>> /\ r.end = <<>>}

\* what a caller passes to the publisher
\* what a caller passes to the publisher; without an index the cursor is taken
PublishRequests ==
  [message : CallerMessages, index : Opt(PublishIndexes), nextRoot : NextRoots]
\* the requests with a trytes message and an index of the channel
ValidRequests ==
  [message : TryteMessages, index : Opt(Indexes), nextRoot : NextRoots]

VARIABLES
  messages,         \* this.messages: index -> optional message
  branches,         \* this.branches: index -> "undefined", "EMPTY" or "R"
  cursor,           \* this.cursor
  channelPassword,  \* TRUE iff the instance was built with a channel password
  ledger,           \* the bundles attached so far, in timestamp order
  transfers,        \* MessageTransfers created, and those being submitted
  signed,           \* history: the <<leaf index, digest>> signed, and how often
  published,        \* history: indexes at which a publish has succeeded
  subs,             \* the stream callbacks of the instance, oldest first
  stream,           \* positions in ledger the push stream has yet to deliver
  ev,               \* the last observed operation, its arguments and outcome
                    \* (of a running createTree: its locals so far)
  watch,            \* the family of operations ev observes (fixed by Init)
  zmq,              \* the module zmq: serverAddress, connectedTo,
                    \* subscriptions (address -> callbacks) and bundles
  handles,          \* the handles zmq.subscribe returned, oldest first
  calls             \* history: what the subscriptions did, oldest first

vars == <<messages, branches, cursor, channelPassword, ledger, transfers,
          signed, published, subs, stream, ev, watch, zmq, handles, calls>>

\* ------------------------------------------------------- JavaScript values
\* array[i] of a sparse array: undefined outside what was assigned
Get(arr, i) == IF i \in DOMAIN arr THEN arr[i] ELSE <<>>

Defined(cell) == cell # <<>>

\* the truth value of a cell holding a string: undefined and "" are falsy
Truthy(cell) == cell # <<>> /\ cell[1] # <<>>

\* the truth value of an optional number: undefined and 0 are falsy
TruthyNum(o) == o # <<>> /\ o[1] # 0

SetMax(S) == CHOOSE x \in S : \A y \in S : y <= x

Max(a, b) == IF a >= b THEN a ELSE b

\* array.length: one more than the highest index ever assigned
Length(arr) ==
  LET set == {i \in DOMAIN arr : arr[i] # <<>>}
  IN IF set = {} THEN 0 ELSE SetMax(set) + 1

\* @iota/validators isTrytes with the default length "1,"
isTrytes(message) ==
  Len(message) >= 1 /\ \A k \in 1 .. Len(message) : message[k] \in alphabet

\* ev records an operation of the observed family in full and any other
\* operation as "other"
Unobserved ==
  [op |-> "other", idx |-> 0, res |-> "", msg |-> <<>>, q |-> <<>>,
   start |-> 0, end |-> <<>>, open |-> FALSE, errors |-> <<>>,
        failed |-> <<>>, called |-> <<>>]

\* the operations of the family are observed in ev
Observed(family) == watch \in {family, "public"}

Event(family, op, idx, res) ==
  IF Observed(family)
  THEN [op |-> op, idx |-> idx, res |-> res, msg |-> <<>>, q |-> <<>>,
        start |-> 0, end |-> <<>>, open |-> FALSE, errors |-> <<>>,
        failed |-> <<>>, called |-> <<>>]
  ELSE Unobserved

\* the module zmq when it is loaded: no server URL, no connection, no
\* callback and no record received
Unconnected ==
  [serverAddress |-> <<>>, connectedTo |-> <<>>, open |-> 0,
   subscriptions |-> [a \in Addresses |-> <<>>],
   bundles |-> [id \in BundleIds |-> <<>>]]

Init ==
  /\ messages = [i \in Indexes |-> <<>>]
  /\ branches = [i \in Indexes |-> "undefined"]
  /\ cursor = 0
  /\ channelPassword \in BOOLEAN
  /\ ledger = <<>>
  /\ transfers = {}
  /\ signed = [sigs |-> {}, count |-> 0]
  /\ published = {}
  /\ subs = <<>>
  /\ stream = <<>>
  /\ ev = Unobserved
  /\ watch \in {"none", "publisher", "reader", "subscribe", "public", "zmq"}
  /\ zmq = Unconnected
  /\ handles = <<>>
  /\ calls = <<>>

\* --------------------------------------------------------------- publisher
intToTrytes(i) == IF i = 0 THEN "9" ELSE IF i = 1 THEN "A" ELSE
                 IF i = 2 THEN "B" ELSE IF i = 3 THEN "C" ELSE "D"

\* helpers.digest: message, index, verifying key, nextRoot if any, auth path.
\* The verifying key and the auth path hashes are those of the leaf.
digest(message, index, nextRoot) ==
  message \o <<intToTrytes(index)>> \o <<"vk", intToTrytes(index)>>
    \o (IF nextRoot # "undefined" /\ nextRoot # "EMPTY" THEN <<nextRoot>>
        ELSE <<>>)
    \o <<"auth", intToTrytes(index)>>

\* createOutcome refusing every index below the cursor
createOutcomeBelowCursor(message, index) ==
  IF ~isTrytes(message) /\ message # <<>> THEN "INVALID_MESSAGE"
  ELSE IF index < 0 \/ index >= 2 ^ Height THEN "INVALID_INDEX"
  ELSE IF index < cursor \/ Truthy(Get(messages, index)) THEN "INDEX_USED"
  ELSE "ok"

\* createOutcome with the upper limit of the index off by one
createOutcomeOffByOne(message, index) ==
  IF ~isTrytes(message) /\ message # <<>> THEN "INVALID_MESSAGE"
  ELSE IF index < 0 \/ index > 2 ^ Height THEN "INVALID_INDEX"
  ELSE IF Truthy(Get(messages, index)) THEN "INDEX_USED"
  ELSE "ok"

\* the three checks that open createMessageTransfers, in the code's order
createOutcome(message, index) ==
  IF ~isTrytes(message) /\ message # <<>> THEN "INVALID_MESSAGE"
  ELSE IF index < 0 \/ index >= 2 ^ Height THEN "INVALID_INDEX"
  ELSE IF Truthy(Get(messages, index)) THEN "INDEX_USED"
  ELSE "ok"

Transfer(message, index, nextRoot, key, stage, pass) ==
  [index |-> index, message |-> message, nextRoot |-> nextRoot, key |-> key,
   stage |-> stage, pass |-> pass]

\* Create without the check of the channel password
CreateAllowed(op, message, index, nextRoot, key, stage) ==
  LET res == createOutcome(message, index)
      t == Transfer(message, index, nextRoot, key, stage, stage = "sending")
  IN /\ res = "ok" => signed.count < MaxSigned
     /\ IF res = "ok"
        THEN /\ signed' =
                  [sigs |-> signed.sigs
                              \cup {<<index, digest(message, index, nextRoot)>>},
                   count |-> signed.count + 1]
             /\ transfers' = transfers \cup {t}
        ELSE UNCHANGED <<signed, transfers>>
     /\ ev' = IF Observed("publisher")
              THEN [Event("publisher", op, index, res) EXCEPT !.msg = message]
              ELSE Unobserved
     /\ UNCHANGED <<messages, branches, cursor, channelPassword, ledger,
                    published, subs, stream, watch, zmq, handles, calls>>

\* createMessageTransfers and createPublicMessageTransfers: validate, sign
\* with the leaf's key and return the transfers; nothing is stored in the
\* instance.
Create(op, message, index, nextRoot, key, stage) ==
  LET res == IF key = "public" /\ channelPassword THEN "PUBLIC_NOT_ALLOWED"
             ELSE createOutcome(message, index)
      t == Transfer(message, index, nextRoot, key, stage, stage = "sending")
  IN /\ res = "ok" => signed.count < MaxSigned
     /\ IF res = "ok"
        THEN /\ signed' =
                  [sigs |-> signed.sigs
                              \cup {<<index, digest(message, index, nextRoot)>>},
                   count |-> signed.count + 1]
             /\ transfers' = transfers \cup {t}
        ELSE UNCHANGED <<signed, transfers>>
     /\ ev' = IF Observed("publisher")
              THEN [Event("publisher", op, index, res) EXCEPT !.msg = message]
              ELSE Unobserved
     /\ UNCHANGED <<messages, branches, cursor, channelPassword, ledger,
                    published, subs, stream, watch, zmq, handles, calls>>

\* the default of the index option: "index = this.cursor"
indexOr(index) == IF index = <<>> THEN cursor ELSE index[1]

\* Each operation takes the set of requests its callers make in the
\* specification at hand.
createMessageTransfers(requests) ==
  \E r \in requests :
    Create("createMessageTransfers", r.message, indexOr(r.index), r.nextRoot,
           "default", "prepared")

createPublicMessageTransfers(requests) ==
  \E r \in requests :
    Create("createPublicMessageTransfers", r.message, indexOr(r.index), r.nextRoot,
           "public", "prepared")

\* publish and publishPublic up to their suspension in sendTransfers
publish(requests) ==
  \E r \in requests :
    Create("publish", r.message, indexOr(r.index), r.nextRoot, "default",
           "sending")

publishPublic(requests) ==
  \E r \in requests :
    Create("publishPublic", r.message, indexOr(r.index), r.nextRoot, "public",
           "sending")

\* publishMessageTransfers up to its suspension in sendTransfers; pass tells
\* whether the caller handed over the compiled message
publishMessageTransfers ==
  \E t \in transfers, pass \in BOOLEAN :
    /\ t.stage = "prepared"
    /\ transfers' = (transfers \ {t}) \cup {[t EXCEPT !.stage = "sending", !.pass = pass]}
    /\ ev' = Event("publisher", "publishMessageTransfers", t.index, "pending")
    /\ UNCHANGED <<messages, branches, cursor, channelPassword, ledger, signed,
                   published, subs, stream, watch, zmq, handles, calls>>

\* Math.ceil(a / b) for b > 0
Ceil(a, b) == (a + b - 1) \div b

\* the length in trytes of a nextRoot: the root of a channel of security 1
nextRootTrytes(nextRoot) ==
  IF nextRoot = "undefined" THEN 0 ELSE HASH_TRYTES

\* the number of records createTransfers cuts the payload into: the header,
\* the message, the verifying key, the auth path and the nextRoot, padded to
\* whole fragments
payloadRecords(length, height, security, nextRootLength) ==
  Ceil(PREFIX_LENGTH + length + (height + 1) * security * HASH_TRYTES
         + nextRootLength,
       MESSAGE_FRAGMENT_TRYTES)

\* the number of records createTransfers cuts a signature into
signatureRecords(security) ==
  Ceil(security * SIGNATURE_TRYTES_PER_SECURITY, MESSAGE_FRAGMENT_TRYTES)

\* The bundle createTransfers and sendTransfers attach.  security is the
\* level in its header, records the number of its records, sig and auth
\* whether its signature verifies and its auth path leads to the channel
\* root; its timestamp is the time of its attachment.
Bundle(t) ==
  [index |-> t.index, message |-> t.message, nextRoot |-> t.nextRoot,
   key |-> t.key, security |-> Security,
   records |-> payloadRecords(Len(t.message), Height, Security,
                              nextRootTrytes(t.nextRoot))
                 + signatureRecords(Security),
   sig |-> TRUE, auth |-> TRUE, timestamp |-> Len(ledger) + 1]

\* message.sendTransfers resolved: the bundle is on the ledger
sendTransfersOk(t) ==
  /\ Len(ledger) < MaxLedger
  /\ ledger' = Append(ledger, Bundle(t))
  /\ stream' = IF Len(subs) > 0 THEN Append(stream, Len(ledger) + 1) ELSE stream

\* storePublished with the cursor set to the index after the published one
storePublishedNext(t) ==
  IF t.pass
  THEN /\ messages' = [messages EXCEPT ![t.index] = <<t.message>>]
       /\ branches' = IF t.nextRoot # "undefined"
                      THEN [branches EXCEPT ![t.index] = t.nextRoot]
                      ELSE branches
       /\ cursor' = t.index + 1
       /\ published' = published \cup {t.index}
  ELSE UNCHANGED <<messages, branches, cursor, published>>

\* storePublished with the cursor raised to the index after the published
\* one, whatever the cache holds
storePublishedMax(t) ==
  IF t.pass
  THEN /\ messages' = [messages EXCEPT ![t.index] = <<t.message>>]
       /\ branches' = IF t.nextRoot # "undefined"
                      THEN [branches EXCEPT ![t.index] = t.nextRoot]
                      ELSE branches
       /\ cursor' = Max(cursor, t.index + 1)
       /\ published' = published \cup {t.index}
  ELSE UNCHANGED <<messages, branches, cursor, published>>

\* the rest of publishMessageTransfers, after the await
storePublished(t) ==
  IF t.pass
  THEN LET stored == [messages EXCEPT ![t.index] = <<t.message>>]
       IN /\ messages' = stored
          /\ branches' = IF t.nextRoot # "undefined"
                         THEN [branches EXCEPT ![t.index] = t.nextRoot]
                         ELSE branches
          /\ cursor' = Length(stored)
          /\ published' = published \cup {t.index}
  ELSE UNCHANGED <<messages, branches, cursor, published>>

publishResolved ==
  \E t \in transfers :
    /\ t.stage = "sending"
    /\ sendTransfersOk(t)
    /\ storePublished(t)
    /\ transfers' = transfers \ {t}
    /\ ev' = Event("publisher", IF t.pass THEN "published" ELSE "submitted", t.index, "ok")
    /\ UNCHANGED <<channelPassword, signed, subs, watch, zmq, handles, calls>>

\* publishRejected with the message stored before the submission is awaited
publishRejectedStored ==
  \E t \in transfers :
    /\ t.stage = "sending"
    /\ transfers' = transfers \ {t}
    /\ t.pass
    /\ messages' = [messages EXCEPT ![t.index] = <<t.message>>]
    /\ cursor' = Length(messages')
    /\ ev' = Event("publisher", "publishRejected", t.index, "error")
    /\ UNCHANGED <<branches, channelPassword, ledger, signed, published, subs,
                   stream, watch, zmq, handles, calls>>

\* message.sendTransfers rejected: publishMessageTransfers throws at the await
publishRejected ==
  \E t \in transfers :
    /\ t.stage = "sending"
    /\ transfers' = transfers \ {t}
    /\ ev' = Event("publisher", "publishRejected", t.index, "error")
    /\ UNCHANGED <<messages, branches, cursor, channelPassword, ledger, signed,
                   published, subs, stream, watch, zmq, handles, calls>>

\* ------------------------------------------------------------------ reader
\* getRange: the range a request of (index, start, end) stands for
getRange(index, start, end) ==
  IF index # <<>>
  THEN IF TruthyNum(end)
       THEN [start |-> IF TruthyNum(start) THEN start[1] ELSE index[1],
             end |-> end]
       ELSE IF start = <<>>
            THEN [start |-> index[1], end |-> index]
            ELSE [start |-> start[1], end |-> end]
  ELSE IF start = <<>>
       THEN [start |-> 0, end |-> end]
       ELSE [start |-> start[1], end |-> end]

\* the first inner loop of getIntervals: step over stored messages; brk is
\* the "break outer" taken at the last index
RECURSIVE skipStored(_, _, _)
skipStored(msgs, i, stop) ==
  IF Defined(Get(msgs, i))
  THEN IF i = stop THEN [i |-> i, brk |-> TRUE]
       ELSE skipStored(msgs, i + 1, stop)
  ELSE [i |-> i, brk |-> FALSE]

\* the second inner loop of getIntervals: run to the end of the hole
RECURSIVE skipHole(_, _, _)
skipHole(msgs, i, stop) ==
  IF i <= stop /\ ~Defined(Get(msgs, i)) THEN skipHole(msgs, i + 1, stop)
  ELSE i

\* the outer loop of getIntervals: the intervals found and the final i
RECURSIVE walkIntervals(_, _, _, _)
walkIntervals(msgs, i, stop, intervals) ==
  IF i > stop THEN [intervals |-> intervals, i |-> i]
  ELSE LET a == skipStored(msgs, i, stop)
       IN IF a.brk THEN [intervals |-> intervals, i |-> a.i]
          ELSE LET j == skipHole(msgs, a.i, stop)
               IN walkIntervals(msgs, j, stop,
                    Append(intervals, [start |-> a.i, end |-> <<j - 1>>]))

getIntervals(msgs, start, end) ==
  LET stop == IF end # <<>> THEN end[1] ELSE Max(0, Length(msgs) - 1)
      w == walkIntervals(msgs, start, stop, <<>>)
      n == Len(w.intervals)
  IN IF end = <<>>
     THEN IF n = 0
          THEN <<[start |-> w.i + 1, end |-> <<>>]>>
          ELSE [w.intervals EXCEPT ![n].end = <<>>]
     ELSE w.intervals

\* the positions in ledger of the bundles attached at the address of index i,
\* in timestamp order
RECURSIVE bundlesAt(_, _)
bundlesAt(i, k) ==
  IF k > Len(ledger) THEN <<>>
  ELSE IF ledger[k].index = i THEN <<k>> \o bundlesAt(i, k + 1)
       ELSE bundlesAt(i, k + 1)

\* Array.sort by timestamp, which keeps the order of equal timestamps
RECURSIVE insertByTimestamp(_, _)
insertByTimestamp(sorted, p) ==
  IF sorted = <<>> THEN <<p>>
  ELSE IF ledger[Head(sorted)].timestamp <= ledger[p].timestamp
       THEN <<Head(sorted)>> \o insertByTimestamp(Tail(sorted), p)
       ELSE <<p>> \o sorted

RECURSIVE sortByTimestamp(_, _)
sortByTimestamp(positions, sorted) ==
  IF positions = <<>> THEN sorted
  ELSE sortByTimestamp(Tail(positions),
                       insertByTimestamp(sorted, Head(positions)))

\* the filter "txs.length >= 2" of fetchMessage
RECURSIVE atLeastTwoRecords(_)
atLeastTwoRecords(positions) ==
  IF positions = <<>> THEN <<>>
  ELSE IF ledger[Head(positions)].records >= 2
       THEN <<Head(positions)>> \o atLeastTwoRecords(Tail(positions))
       ELSE atLeastTwoRecords(Tail(positions))

\* the number of payload records processBundle reads: the header is not
\* counted in payloadLength
payloadTransactions(length, height, security, nextRootLength) ==
  Ceil(length + (height + 1) * security * HASH_TRYTES + nextRootLength,
       MESSAGE_FRAGMENT_TRYTES)

payloadTransactionsOf(b) ==
  payloadTransactions(Len(b.message), Height, b.security,
                      nextRootTrytes(b.nextRoot))

\* message.processBundle on a bundle of this channel, "ok" or the error it
\* throws.  Decrypted with another key than it was encrypted with, the header
\* is noise and the index differs.  security is the level the caller
\* expects, if any.
processBundle(b, key, security) ==
  IF b.records < 2 THEN "SHORT_MESSAGE"
  ELSE IF b.key # key THEN "WRONG_INDEX"
  ELSE IF TruthyNum(security) /\ security[1] # b.security
       THEN "WRONG_SECURITY"
  ELSE IF TruthyNum(security)
            /\ b.records - payloadTransactionsOf(b) < security[1]
       THEN "SHORT_MESSAGE"
  ELSE IF b.records < payloadTransactionsOf(b)
       THEN \* txs[i] is undefined for a payload record that is missing
            "TypeError"
  ELSE "ok"

\* message.fetchMessage: the first bundle that parses; those tried before it
\* are skipped, each with the error of its parse
RECURSIVE fetchMessage(_, _, _, _)
fetchMessage(positions, key, security, skipped) ==
  IF positions = <<>> THEN [message |-> <<>>, skipped |-> skipped]
  ELSE LET e == processBundle(ledger[Head(positions)], key, security)
       IN IF e = "ok"
          THEN [message |-> <<Head(positions)>>, skipped |-> skipped]
          ELSE fetchMessage(Tail(positions), key, security,
                 Append(skipped, [bundle |-> Head(positions), error |-> e]))

\* the nextRoot processBundle extracts: with no nextRoot in the record it is
\* the trits of the empty string, an empty array
parsedNextRoot(b) == IF b.nextRoot = "undefined" THEN "EMPTY" ELSE b.nextRoot

\* raamReader processMessage, "ok" or the error it throws.  The signature
\* read from fewer records than its security level needs is zero in part.
processMessage(b) ==
  IF ~b.sig
       \/ b.records - payloadTransactionsOf(b) < signatureRecords(b.security)
  THEN "VERIFICATION_FAILED"
  ELSE IF ~b.auth THEN "AUTHENTICATION_FAILED"
  ELSE "ok"

\* getMessage trying the bundles in the order the node lists them
getMessageUnsorted(i, key, security) ==
  fetchMessage(atLeastTwoRecords(bundlesAt(i, 1)), key, security, <<>>)

\* message.getMessage: the bundles at the address of index i, as fetchMessage
\* orders them
getMessage(i, key, security) ==
  fetchMessage(sortByTimestamp(atLeastTwoRecords(bundlesAt(i, 1)), <<>>), key,
               security, <<>>)

\* fetchSingle returning what was parsed without verifying it
fetchSingleUnverified(i, key, security) ==
  LET r == getMessage(i, key, security)
  IN IF r.message = <<>>
     THEN [found |-> FALSE, error |-> "", message |-> <<>>,
           nextRoot |-> "undefined", skipped |-> r.skipped]
     ELSE [found |-> TRUE, error |-> "",
           message |-> ledger[r.message[1]].message,
           nextRoot |-> parsedNextRoot(ledger[r.message[1]]),
           skipped |-> r.skipped]

\* RAAMReader.fetchSingle: the message found at index i, if any; error is
\* what the call throws, "" if it returns
fetchSingle(i, key, security) ==
  LET r == getMessage(i, key, security)
      none == [found |-> FALSE, error |-> "", message |-> <<>>,
               nextRoot |-> "undefined", skipped |-> r.skipped]
  IN IF r.message = <<>> THEN none
     ELSE LET b == ledger[r.message[1]]
          IN IF processMessage(b) # "ok"
             THEN [none EXCEPT !.error = processMessage(b)]
             ELSE [found |-> TRUE, error |-> "", message |-> b.message,
                   nextRoot |-> parsedNextRoot(b), skipped |-> r.skipped]

\* fetchMessages leaving the loop at an error whether or not an end is given
RECURSIVE fetchMessagesBreaking(_, _, _, _, _)
fetchMessagesBreaking(i, end, index, key, result) ==
  IF end # <<>> /\ i > end[1] THEN result
  ELSE LET r == fetchSingle(i, key, <<Security>>)
           asked == [result EXCEPT !.q = Append(@, i),
                                   !.called = Append(@, index)]
       IN IF r.error # ""
          THEN [asked EXCEPT !.errors = Append(@, r.error),
                             !.failed = Append(@, i)]
          ELSE IF ~r.found
          THEN IF end = <<>> THEN asked
               ELSE fetchMessagesBreaking(i + 1, end, index, key, asked)
          ELSE fetchMessagesBreaking(i + 1, end, index, key,
                 [asked EXCEPT !.found = Append(@,
                    [index |-> i, message |-> r.message,
                     nextRoot |-> r.nextRoot])])

\* the loop of RAAMReader.fetchMessages from index i: found collects
\* result.messages and result.branches, errors result.errors, q the indexes
\* queried on the ledger and failed those whose query threw; index is the
\* index option of the call and called the index arguments the read callback
\* was invoked with, one for every query
RECURSIVE fetchMessages(_, _, _, _, _)
fetchMessages(i, end, index, key, result) ==
  IF end # <<>> /\ i > end[1] THEN result
  ELSE LET r == fetchSingle(i, key, <<Security>>)
           asked == [result EXCEPT !.q = Append(@, i),
                                   !.called = Append(@, index)]
           thrown == [asked EXCEPT !.errors = Append(@, r.error),
                                   !.failed = Append(@, i)]
       IN IF r.error # ""
          THEN IF end = <<>> THEN thrown
               ELSE fetchMessages(i + 1, end, index, key, thrown)
          ELSE IF ~r.found
          THEN IF end = <<>> THEN asked
               ELSE fetchMessages(i + 1, end, index, key, asked)
          ELSE fetchMessages(i + 1, end, index, key,
                 [asked EXCEPT !.found = Append(@,
                    [index |-> i, message |-> r.message, nextRoot |-> r.nextRoot])])

\* fetch stores what one fetchMessages call returned
RECURSIVE store(_, _)
store(state, found) ==
  IF found = <<>> THEN state
  ELSE LET f == Head(found)
       IN store([messages |-> [state.messages EXCEPT ![f.index] = <<f.message>>],
                 branches |-> [state.branches EXCEPT ![f.index] = f.nextRoot]],
                Tail(found))

\* the loop of RAAMReader.fetch over the intervals; its fetchMessages calls
\* pass start and end and no index
RECURSIVE fetchIntervals(_, _, _)
fetchIntervals(intervals, key, acc) ==
  IF intervals = <<>> THEN acc
  ELSE LET iv == Head(intervals)
           r == fetchMessages(iv.start, iv.end, <<>>, key,
                  [found |-> <<>>, q |-> <<>>, errors |-> <<>>,
                   failed |-> <<>>, called |-> <<>>])
           st == store([messages |-> acc.messages, branches |-> acc.branches],
                       r.found)
       IN fetchIntervals(Tail(intervals), key,
            [messages |-> st.messages, branches |-> st.branches,
             q |-> acc.q \o r.q, errors |-> acc.errors \o r.errors,
             failed |-> acc.failed \o r.failed,
             called |-> acc.called \o r.called])

\* RAAMReader.fetch: the cache afterwards and the indexes queried
fetched(index, start, end, key) ==
  LET range == getRange(index, start, end)
      none == [messages |-> messages, branches |-> branches, q |-> <<>>,
               errors |-> <<>>, failed |-> <<>>, called |-> <<>>]
  IN IF TruthyNum(range.end) /\ range.end[1] < range.start THEN none
     ELSE fetchIntervals(getIntervals(messages, range.start, range.end), key,
                         none)

FetchEvent(op, index, start, end, r) ==
  IF Observed("reader")
  THEN [op |-> op, idx |-> 0, res |-> "ok", msg |-> <<>>, q |-> r.q,
        start |-> getRange(index, start, end).start,
        end |-> getRange(index, start, end).end,
        open |-> getRange(index, start, end).end = <<>>,
        errors |-> r.errors, failed |-> r.failed, called |-> r.called]
  ELSE Unobserved

Fetch(op, index, start, end, key) ==
  LET r == fetched(index, start, end, key)
  IN /\ messages' = r.messages
     /\ branches' = r.branches
     /\ ev' = FetchEvent(op, index, start, end, r)
     /\ UNCHANGED <<cursor, channelPassword, ledger, transfers, signed,
                    published, subs, stream, watch, zmq, handles, calls>>

fetch(requests) ==
  \E r \in requests : Fetch("fetch", r.index, r.start, r.end, "default")

fetchPublic(requests) ==
  \E r \in requests :
    IF channelPassword
    THEN /\ ev' = Event("reader", "fetchPublic", 0, "PUBLIC_NOT_ALLOWED")
         /\ UNCHANGED <<messages, branches, cursor, channelPassword, ledger,
                        transfers, signed, published, subs, stream,
                        watch, zmq, handles, calls>>
    ELSE Fetch("fetchPublic", r.index, r.start, r.end, "public")

\* RAAMReader.syncChannel: fetch from 0 with no end, then move the cursor
syncChannel ==
  LET r == fetched(<<>>, <<>>, <<>>, "default")
  IN /\ messages' = r.messages
     /\ branches' = r.branches
     /\ cursor' = Length(r.messages)
     /\ ev' = FetchEvent("syncChannel", <<>>, <<>>, <<>>, r)
     /\ UNCHANGED <<channelPassword, ledger, transfers, signed, published,
                    subs, stream, watch, zmq, handles, calls>>

\* ----------------------------------------------------------- subscriptions
\* the indexes lo..hi as a sequence
RECURSIVE indexesOf(_, _)
indexesOf(lo, hi) == IF lo > hi THEN <<>> ELSE <<lo>> \o indexesOf(lo + 1, hi)

\* the loop at the end of subscribe: every index of every interval, an
\* interval without an end standing for its start alone
RECURSIVE subscribedIndexes(_)
subscribedIndexes(intervals) ==
  IF intervals = <<>> THEN <<>>
  ELSE LET iv == Head(intervals)
       IN indexesOf(iv.start, IF iv.end # <<>> THEN iv.end[1] ELSE iv.start)
            \o subscribedIndexes(Tail(intervals))

\* "if (!last.end) last.end = last.start" on the last interval
closeLast(intervals) ==
  LET n == Len(intervals)
  IN IF TruthyNum(intervals[n].end) THEN intervals
     ELSE [intervals EXCEPT ![n].end = <<intervals[n].start>>]

\* one callback registered with the stream for index i by subscription sid;
\* intervals is what wrap reads when subscribeFollowing is set.  quits: the
\* caller's callback calls unsubscribe() of its subscription whenever it is
\* invoked.  static: registered by the static subscribeIndex, without a
\* reader instance.
Registration(i, sid, key, following, intervals, quits, static) ==
  [index |-> i, sid |-> sid, key |-> key, following |-> following,
   intervals |-> IF following THEN intervals ELSE <<>>, quits |-> quits,
   static |-> static]

RECURSIVE registrations(_, _, _, _, _, _)
registrations(indexes, sid, key, following, intervals, quits) ==
  IF indexes = <<>> THEN <<>>
  ELSE <<Registration(Head(indexes), sid, key, following, intervals, quits,
                      FALSE)>>
         \o registrations(Tail(indexes), sid, key, following, intervals, quits)

\* calls records the subscriptions when they are what is observed
Logged == watch = "subscribe"
Call(op, sid, index, cached) ==
  [op |-> op, sid |-> sid, index |-> index, cached |-> cached]
Log(entries) == IF Logged THEN calls \o entries ELSE calls

\* the subscribe and unsubscribe calls made so far, as far as recorded
RECURSIVE callsMade(_)
callsMade(log) ==
  IF log = <<>> THEN 0
  ELSE callsMade(Tail(log))
         + (IF Head(log).op \in {"subscribe", "subscribeFollowing",
                                 "subscribeIndex", "unsubscribe"}
            THEN 1 ELSE 0)

\* the identity of a new subscription object
FreeSid ==
  CHOOSE n \in 1 .. (Len(subs) + Len(calls) + 1) :
    /\ \A k \in 1 .. Len(subs) : subs[k].sid # n
    /\ \A k \in 1 .. Len(calls) : calls[k].sid # n
    /\ \A j \in 1 .. (n - 1) :
         \/ \E k \in 1 .. Len(subs) : subs[k].sid = j
         \/ \E k \in 1 .. Len(calls) : calls[k].sid = j

\* what a subscribe call leaves in ev: the range asked for, the number of
\* callbacks registered, and how the call ended
SubscribeEvent(op, range, idx, res) ==
  IF Observed("subscribe")
  THEN [Event("subscribe", op, idx, res) EXCEPT !.start = range.start,
                                                !.end = range.end]
  ELSE Unobserved

\* RAAMReader.subscribe; limit caps the callbacks registered at a time
Subscribe(op, index, start, end, following, key, quits, limit) ==
  LET range == getRange(index, start, end)
      found == getIntervals(messages, range.start, range.end)
      skip == TruthyNum(range.end) /\ range.end[1] < range.start
      intervals == closeLast(found)
      new == registrations(subscribedIndexes(intervals), FreeSid, key,
                           following, intervals, quits)
  IN IF skip
     THEN /\ ev' = SubscribeEvent(op, range, 0, "undefined")
          /\ UNCHANGED <<subs, calls>>
     ELSE IF found = <<>>
     THEN \* intervals[intervals.length - 1] is undefined: last.end throws
          /\ ev' = SubscribeEvent(op, range, 0, "TypeError")
          /\ UNCHANGED <<subs, calls>>
     ELSE /\ Len(subs) + Len(new) <= limit
          /\ callsMade(calls) < MaxCalls
          /\ subs' = subs \o new
          /\ calls' = Log(<<Call(IF following THEN "subscribeFollowing"
                                 ELSE "subscribe",
                                 FreeSid, range.start, FALSE)>>)
          /\ ev' = SubscribeEvent(op, range, Len(new), "ok")

\* quitting: what the callbacks passed do about unsubscribing, see above
subscribe(requests, quitting, limit) ==
  /\ \E r \in requests, following \in BOOLEAN, quits \in quitting :
       Subscribe("subscribe", r.index, r.start, r.end, following, "default",
                 quits, limit)
  /\ UNCHANGED <<messages, branches, cursor, channelPassword, ledger,
                 transfers, signed, published, stream, watch, zmq, handles>>

\* RAAMReader.subscribePublic of an instance
subscribePublic(requests) ==
  /\ \E r \in requests, following \in BOOLEAN :
       IF channelPassword
       THEN /\ ev' = Event("subscribe", "subscribePublic", 0,
                           "PUBLIC_NOT_ALLOWED")
            /\ UNCHANGED <<subs, calls>>
       ELSE Subscribe("subscribePublic", r.index, r.start, r.end, following,
                      "public", FALSE, MaxSubs)
  /\ UNCHANGED <<messages, branches, cursor, channelPassword, ledger,
                 transfers, signed, published, stream, watch, zmq, handles>>

\* the static RAAMReader.subscribeIndex: one callback for one index; with
\* subscribeFollowing the closure itself subscribes the next index
subscribeIndex(indexes, quitting, limit) ==
  /\ \E i \in indexes, following \in BOOLEAN, quits \in quitting :
       /\ Len(subs) < limit
       /\ callsMade(calls) < MaxCalls
       /\ subs' = Append(subs, Registration(i, FreeSid, "default", following,
                                            <<>>, quits, TRUE))
       /\ calls' = Log(<<Call("subscribeIndex", FreeSid, i, FALSE)>>)
       /\ ev' = Event("subscribe", "subscribeIndex", 1, "ok")
  /\ UNCHANGED <<messages, branches, cursor, channelPassword, ledger,
                 transfers, signed, published, stream, watch, zmq, handles>>

\* Subscription.unsubscribe: every callback the subscription registered
RECURSIVE without(_, _)
without(registered, sid) ==
  IF registered = <<>> THEN <<>>
  ELSE IF Head(registered).sid = sid THEN without(Tail(registered), sid)
       ELSE <<Head(registered)>> \o without(Tail(registered), sid)

unsubscribe ==
  \E k \in 1 .. Len(subs) :
    /\ callsMade(calls) < MaxCalls
    /\ subs' = without(subs, subs[k].sid)
    /\ calls' = Log(<<Call("unsubscribe", subs[k].sid, subs[k].index, FALSE)>>)
    /\ ev' = Event("subscribe", "unsubscribe", 0, "ok")
    /\ UNCHANGED <<messages, branches, cursor, channelPassword, ledger,
                   transfers, signed, published, stream, watch, zmq, handles>>

inIntervals(i, intervals) ==
  \E k \in 1 .. Len(intervals) :
    i >= intervals[k].start /\ intervals[k].end # <<>> /\ i <= intervals[k].end[1]

RemoveAt(seq, k) == SubSeq(seq, 1, k - 1) \o SubSeq(seq, k + 1, Len(seq))

\* The stream handler's forEach over the callbacks of the bundle's address.
\* st.subs is the live callback list, st.messages the cache; n counts the
\* callbacks of this address already visited, which is the array position
\* forEach looks at next.  A callback whose message verifies stores it,
\* subscribes the next index when asked to, and unsubscribes itself, which
\* shifts the callbacks behind it one position down.
RECURSIVE positionsAt(_, _, _)
positionsAt(registered, i, k) ==
  IF k > Len(registered) THEN <<>>
  ELSE IF registered[k].index = i THEN <<k>> \o positionsAt(registered, i, k + 1)
       ELSE positionsAt(registered, i, k + 1)

\* what the caller's callback of registration r does when it is invoked:
\* the entries it leaves in calls, "inside" marking an unsubscribe() called
\* from the callback
invocation(r, op, cached) ==
  <<Call(op, r.sid, r.index, cached)>>
    \o (IF r.quits THEN <<Call("inside", r.sid, r.index, FALSE)>> ELSE <<>>)

\* the closure of the static subscribeIndex on a verified message: the
\* callback, which may unsubscribe; then the next index is subscribed if
\* subscribeFollowing is set, and the callback of this index removed
afterStatic(registered, k) ==
  LET r == registered[k]
      left == RemoveAt(registered, k)
  IN IF r.following THEN Append(left, [r EXCEPT !.index = r.index + 1])
     ELSE left

\* the closure on a verified message when the callback is the wrap of an
\* instance: store the message, subscribe the next index if it is neither
\* cached nor in the intervals, then the caller's callback, which may
\* unsubscribe every callback of the subscription; then this one is removed
afterWrap(registered, k, stored) ==
  LET r == registered[k]
      next == r.index + 1
      follow == /\ r.following
                /\ ~Defined(Get(stored, next))
                /\ ~inIntervals(next, r.intervals)
      left == RemoveAt(registered, k)
      grown == IF follow THEN Append(left, [r EXCEPT !.index = next])
               ELSE left
  IN IF r.quits THEN without(grown, r.sid) ELSE grown

RECURSIVE dispatch(_, _, _)
dispatch(b, n, st) ==
  LET at == positionsAt(st.subs, b.index, 1)
  IN IF n >= Len(at) THEN st
     ELSE LET k == at[n + 1]
              r == st.subs[k]
          IN IF processBundle(b, r.key, <<Security>>) # "ok"
             THEN \* the catch block reads its own "bundle" before it is
                  \* initialised: a ReferenceError leaves the handler
                  [st EXCEPT !.thrown = TRUE]
             ELSE IF processMessage(b) # "ok"
             THEN \* the callback gets the error, the subscription stays
                  \* unless the callback ends it
                  dispatch(b, n + 1,
                    [st EXCEPT !.called = @ + 1,
                               !.subs = IF ~r.quits THEN @
                                        ELSE IF r.static THEN RemoveAt(@, k)
                                        ELSE without(@, r.sid),
                               !.log = @ \o invocation(r, "error", FALSE)])
             ELSE IF r.static
             THEN dispatch(b, n + 1,
                    [st EXCEPT !.subs = afterStatic(@, k),
                               !.called = @ + 1,
                               !.log = @ \o invocation(r, "callback", FALSE)])
             ELSE LET stored == [st.messages EXCEPT ![r.index] = <<b.message>>]
                  IN dispatch(b, n + 1,
                       [st EXCEPT !.messages = stored,
                                  !.subs = afterWrap(@, k, stored),
                                  !.called = @ + 1,
                                  !.log = @ \o invocation(r, "callback",
                                            Defined(Get(stored, r.index)))])

\* the push stream delivers the complete bundle at the head of stream
deliver ==
  /\ stream # <<>>
  /\ LET b == ledger[Head(stream)]
         r == dispatch(b, 0,
                       [subs |-> subs, messages |-> messages, called |-> 0,
                        thrown |-> FALSE, log |-> <<>>])
     IN /\ subs' = r.subs
        /\ messages' = r.messages
        /\ calls' = Log(<<Call("deliver", 0, b.index, FALSE)>> \o r.log)
        /\ ev' = Event("subscribe", "deliver", r.called,
                       IF r.thrown THEN "ReferenceError" ELSE "ok")
  /\ stream' = Tail(stream)
  /\ UNCHANGED <<branches, cursor, channelPassword, ledger, transfers, signed,
                 published, watch, zmq, handles>>

\* -------------------------------------------------------- the module zmq
\* what a call of the module leaves in ev: the handle it concerns (0: none),
\* whether that handle had been unsubscribed before, and for a record of the
\* stream the callbacks registered at its address, the currentIndexes of the
\* bundle dispatched and the callbacks invoked, in order
ZmqEvent(op, res, handle, again, registered, dispatched, invoked) ==
  IF watch = "zmq"
  THEN [op |-> op, res |-> res, handle |-> handle, again |-> again,
        registered |-> registered, dispatched |-> dispatched,
        invoked |-> invoked]
  ELSE Unobserved

\* subscriptions.size === 0
noSubscriptions(z) == \A a \in Addresses : z.subscriptions[a] = <<>>

\* zmq.setServerAddress
setServerAddress ==
  /\ zmq' = [zmq EXCEPT !.serverAddress = <<"url">>]
  /\ ev' = ZmqEvent("setServerAddress", "ok", 0, FALSE, <<>>, <<>>, <<>>)
  /\ UNCHANGED <<messages, branches, cursor, channelPassword, ledger,
                 transfers, signed, published, subs, stream, watch, handles, calls>>

\* a subscribe that registers the callback before it connects, as the
\* earlier zmq.js did
zmqSubscribeFirst(callbacks) ==
  /\ \E address \in Addresses, callback \in callbacks :
       /\ Len(handles) < MaxHandles
       /\ handles' = Append(handles,
                        [address |-> address, callback |-> callback,
                         cancelled |-> FALSE])
       /\ IF noSubscriptions(zmq) /\ zmq.connectedTo = <<>>
               /\ zmq.serverAddress = <<>>
          THEN /\ zmq' = [zmq EXCEPT
                           !.subscriptions[address] = Append(@, callback)]
               /\ ev' = ZmqEvent("subscribe", "URL_NOT_SET", 0, FALSE, <<>>,
                                 <<>>, <<>>)
          ELSE /\ zmq' = [zmq EXCEPT
                           !.connectedTo = zmq.serverAddress,
                           !.open = IF zmq.connectedTo = <<>> THEN @ + 1 ELSE @,
                           !.subscriptions[address] = Append(@, callback)]
               /\ ev' = ZmqEvent("subscribe", "ok", Len(handles) + 1, FALSE,
                                 <<>>, <<>>, <<>>)
  /\ UNCHANGED <<messages, branches, cursor, channelPassword, ledger,
                 transfers, signed, published, subs, stream, watch, calls>>

\* zmq.subscribe(address, callback): connect if nothing is subscribed and no
\* connection is open, which throws without a server URL; then register
zmqSubscribe(callbacks) ==
  /\ \E address \in Addresses, callback \in callbacks :
       IF noSubscriptions(zmq) /\ zmq.connectedTo = <<>>
            /\ zmq.serverAddress = <<>>
       THEN /\ ev' = ZmqEvent("subscribe", "URL_NOT_SET", 0, FALSE, <<>>,
                               <<>>, <<>>)
            /\ UNCHANGED <<zmq, handles, calls>>
       ELSE /\ Len(handles) < MaxHandles
            /\ zmq' = [zmq EXCEPT
                        !.connectedTo =
                           IF noSubscriptions(zmq) /\ zmq.connectedTo = <<>>
                           THEN zmq.serverAddress ELSE @,
                        !.open =
                           IF noSubscriptions(zmq) /\ zmq.connectedTo = <<>>
                           THEN @ + 1 ELSE @,
                        !.subscriptions[address] = Append(@, callback)]
            /\ handles' = Append(handles,
                             [address |-> address, callback |-> callback,
                              cancelled |-> FALSE])
            /\ ev' = ZmqEvent("subscribe", "ok", Len(handles) + 1, FALSE,
                              <<>>, <<>>, <<>>)
  /\ UNCHANGED <<messages, branches, cursor, channelPassword, ledger,
                 transfers, signed, published, subs, stream, watch, calls>>

\* array.indexOf(callback), from 1; 0 if it is not in the array
RECURSIVE indexOf(_, _, _)
indexOf(array, callback, k) ==
  IF k > Len(array) THEN 0
  ELSE IF array[k] = callback THEN k
  ELSE indexOf(array, callback, k + 1)

\* an unsubscribe that leaves the connection open
unsubscribeStaysOpen(z, address, callback) ==
  LET array == z.subscriptions[address]
      index == indexOf(array, callback, 1)
  IN IF array = <<>> \/ index = 0 THEN z
     ELSE [z EXCEPT !.subscriptions[address] = RemoveAt(array, index)]

\* the unsubscribe of the handle zmq.subscribe(address, callback) returned:
\* splice the first callback equal to this one out of the address's array;
\* the last callback of the last address gone, disconnect. open counts the
\* sockets connected to the server
unsubscribeOf(z, address, callback) ==
  LET array == z.subscriptions[address]
      index == indexOf(array, callback, 1)
      left == [z EXCEPT !.subscriptions[address] = RemoveAt(array, index)]
  IN IF array = <<>> \/ index = 0 THEN z
     ELSE IF noSubscriptions(left)
     THEN [left EXCEPT !.connectedTo = <<>>, !.open = @ - 1]
     ELSE left

\* a caller calls unsubscribe() of a handle it holds
zmqUnsubscribe ==
  /\ \E h \in 1 .. Len(handles) :
       /\ zmq' = unsubscribeOf(zmq, handles[h].address, handles[h].callback)
       /\ handles' = [handles EXCEPT ![h].cancelled = TRUE]
       /\ ev' = ZmqEvent("unsubscribe", "ok", h, handles[h].cancelled, <<>>,
                         <<>>, <<>>)
  /\ UNCHANGED <<messages, branches, cursor, channelPassword, ledger,
                 transfers, signed, published, subs, stream, watch, calls>>

\* bundle.sort by currentIndex
RECURSIVE insertSorted(_, _)
insertSorted(sorted, k) ==
  IF sorted = <<>> THEN <<k>>
  ELSE IF k < Head(sorted) THEN <<k>> \o sorted
  ELSE <<Head(sorted)>> \o insertSorted(Tail(sorted), k)

RECURSIVE sortByCurrentIndex(_)
sortByCurrentIndex(bundle) ==
  IF bundle = <<>> THEN <<>>
  ELSE insertSorted(sortByCurrentIndex(Tail(bundle)), Head(bundle))

\* what the callback at position k of the array does when it is invoked
invoke(z, address, k) ==
  LET array == z.subscriptions[address]
      callback == array[k]
  IN IF callback = "leaves" THEN unsubscribeOf(z, address, callback)
     ELSE IF callback = "ousts" THEN unsubscribeOf(z, address, array[1])
     ELSE z

\* subscriptions.get(address).forEach(cb => cb(bundle)): positions 1 .. len
\* of the array as it is when each is reached; a position the array has
\* lost to a splice is not visited
RECURSIVE forEach(_, _, _, _)
forEach(address, k, len, st) ==
  IF k > len THEN st
  ELSE IF k > Len(st.zmq.subscriptions[address])
  THEN forEach(address, k + 1, len, st)
  ELSE forEach(address, k + 1, len,
         [zmq |-> invoke(st.zmq, address, k),
          invoked |-> Append(st.invoked, st.zmq.subscriptions[address][k])])

\* the handler of sock.on('message') on one record of the stream
onMessage(records) ==
  /\ zmq.connectedTo # <<>>
  /\ \E tx \in records :
       LET known == zmq.bundles[tx.bundle]
           bundle == Append(known, tx.currentIndex)
           registered == zmq.subscriptions[tx.address]
           none == ZmqEvent("message", "ok", 0, FALSE, registered, <<>>,
                            <<>>)
       IN IF registered = <<>>
          THEN /\ zmq' = zmq
               /\ ev' = none
          ELSE IF known = <<>>
          THEN /\ zmq' = [zmq EXCEPT !.bundles[tx.bundle] = <<tx.currentIndex>>]
               /\ ev' = none
          ELSE IF Len(bundle) # tx.lastIndex + 1
          THEN /\ zmq' = [zmq EXCEPT !.bundles[tx.bundle] = bundle]
               /\ ev' = none
          ELSE LET r == forEach(tx.address, 1, Len(registered),
                          [zmq |-> [zmq EXCEPT !.bundles[tx.bundle] = <<>>],
                           invoked |-> <<>>])
               IN /\ zmq' = r.zmq
                  /\ ev' = ZmqEvent("message", "ok", 0, FALSE, registered,
                                    <<sortByCurrentIndex(bundle)>>, r.invoked)
  /\ UNCHANGED <<messages, branches, cursor, channelPassword, ledger,
                 transfers, signed, published, subs, stream, watch, handles, calls>>

\* ------------------------------------------------- the static public reads
\* processMessage called with the index the caller passed.  Without one,
\* intToTrytes(undefined) is the empty string: the digest lacks the trytes
\* of the index the publisher signed, and the signature does not match.
processMessageAs(b, index) ==
  IF index = <<>> THEN "VERIFICATION_FAILED" ELSE processMessage(b)

\* merkle.recreateMerkleTree: the root the auth path of the record leads to
\* from its verifying key, the channel root R for a record of the channel
recreateMerkleTree(b) == IF b.auth THEN "R" ELSE "X"

\* static RAAMReader.fetchPublic on the address of index i of the channel.
\* index is the option of that name, absent or the index of the address;
\* channelRoot tells whether the caller passed the channel root.  A root
\* recreated from the record's own auth path always authenticates it.
staticFetchPublic(i, index, channelRoot) ==
  LET r == getMessage(i, "public", <<>>)
      none == [res |-> "ok", message |-> <<>>, channelRoot |-> "undefined"]
  IN IF r.message = <<>> THEN none
     ELSE LET b == ledger[r.message[1]]
              root == IF channelRoot THEN "R" ELSE recreateMerkleTree(b)
              res == IF processMessageAs(b, index) = "AUTHENTICATION_FAILED"
                          /\ ~channelRoot
                     THEN "ok" ELSE processMessageAs(b, index)
          IN IF res # "ok" THEN [none EXCEPT !.res = res]
             ELSE [res |-> "ok", message |-> <<b.message>>,
                   channelRoot |-> root]

\* what a static read leaves in ev: the addresses read, the options passed
\* and the result per address
StaticEvent(op, addresses, index, channelRoot, results) ==
  [op |-> op, idx |-> 0, res |-> "ok", msg |-> <<>>, q |-> <<>>,
   start |-> 0, end |-> <<>>, open |-> FALSE, errors |-> <<>>,
   failed |-> <<>>, addresses |-> addresses, index |-> index,
   channelRoot |-> channelRoot, results |-> results]

\* RAAMReader.fetchPublic(iota, address, options)
fetchPublicStatic ==
  /\ \E i \in Indexes, channelRoot \in BOOLEAN :
       \E index \in {<<>>, <<i>>} :
         ev' = StaticEvent("RAAMReader.fetchPublic", {i}, index, channelRoot,
                 [a \in {i} |-> staticFetchPublic(i, index, channelRoot)])
  /\ UNCHANGED <<messages, branches, cursor, channelPassword, ledger,
                 transfers, signed, published, subs, stream,
                 watch, zmq, handles, calls>>

\* RAAMReader.fetchPublicMessages(iota, addresses, options): one fetchPublic
\* per address, without an index; an error is the result of its address
fetchPublicMessages ==
  /\ \E addresses \in SUBSET Indexes, channelRoot \in BOOLEAN :
       ev' = StaticEvent("RAAMReader.fetchPublicMessages", addresses, <<>>,
               channelRoot,
               [a \in addresses |-> staticFetchPublic(a, <<>>, channelRoot)])
  /\ UNCHANGED <<messages, branches, cursor, channelPassword, ledger,
                 transfers, signed, published, subs, stream,
                 watch, zmq, handles, calls>>

\* -------------------------------------------------------- the open ledger
\* A bundle somebody else attaches at an address of the channel: like one of
\* the publisher's, or with one defect.
Foreign(i, t, kind) ==
  LET whole == payloadRecords(1, Height, Security, 0)
                 + signatureRecords(Security)
  IN [index |-> i, message |-> <<"A">>, nextRoot |-> "undefined",
      key |-> IF kind = "otherKey" THEN "other" ELSE "default",
      security |-> IF kind \in {"short", "otherSecurity"} THEN Security + 1
                   ELSE Security,
      records |-> IF kind = "oneRecord" THEN 1
                  ELSE IF kind = "otherSecurity"
                       THEN payloadRecords(1, Height, Security + 1, 0)
                              + signatureRecords(Security + 1)
                       ELSE whole,
      sig |-> kind # "forged", auth |-> kind # "unauthentic",
      timestamp |-> t]

ForeignKinds ==
  {"valid", "forged", "unauthentic", "otherKey", "oneRecord", "short",
   "otherSecurity"}

ForeignBundles ==
  {Foreign(i, t, kind) : i \in Indexes, t \in 1 .. MaxTime, kind \in ForeignKinds}

\* the node accepts a bundle from anybody
attach ==
  \E b \in ForeignBundles :
    /\ Len(ledger) < MaxLedger
    /\ ledger' = Append(ledger, b)
    /\ stream' = IF Len(subs) > 0 THEN Append(stream, Len(ledger) + 1)
                 ELSE stream
    /\ ev' = Unobserved
    /\ UNCHANGED <<messages, branches, cursor, channelPassword, transfers,
                   signed, published, subs, watch, zmq, handles, calls>>

\* the owner of the channel publishes its next message from an instance of
\* its own, as the example does: the bundle is attached and the stream
\* carries it to those connected
publishElsewhere ==
  /\ Len(ledger) <= MaxChain
  /\ ledger' = Append(ledger, Foreign(Len(ledger), Len(ledger) + 1, "valid"))
  /\ stream' = IF Len(subs) > 0 THEN Append(stream, Len(ledger) + 1)
               ELSE stream
  /\ ev' = Unobserved
  /\ UNCHANGED <<messages, branches, cursor, channelPassword, transfers,
                 signed, published, subs, watch, zmq, handles, calls>>

\* the operations of the publisher
Publisher(requests) ==
  \/ createMessageTransfers(requests)
  \/ publish(requests)
  \/ publishMessageTransfers
  \/ publishResolved
  \/ publishRejected

\* the public-mode operations
Public(requests, reads) ==
  \/ createPublicMessageTransfers(requests)
  \/ publishPublic(requests)
  \/ fetchPublic(reads)

\* the operations of the reader
Reader(reads) ==
  \/ fetch(reads)
  \/ syncChannel

Subscriptions(reads) ==
  \/ subscribe(reads, {FALSE}, MaxSubs)
  \/ unsubscribe
  \/ deliver

\* every operation on the channel under its default key, no operation
\* observed (the public mode has a specification of its own below)
Next ==
  \/ Publisher(ValidRequests)
  \/ Reader(IndexRequests)
  \/ Subscriptions(IndexRequests)
InitSpec == Init /\ watch = "none"
Spec == InitSpec /\ [][Next]_vars

\* the publisher under every request, observed in ev, with a reader
NextPublisher ==
  \/ Publisher(PublishRequests)
  \/ Reader(IndexRequests)
InitPublisher == Init /\ watch = "publisher"
SpecPublisher == InitPublisher /\ [][NextPublisher]_vars

\* the reader under every request, observed in ev, with a publisher
NextReader ==
  \/ Publisher(ValidRequests)
  \/ Reader(ReadRequests)
InitReader == Init /\ watch = "reader"
SpecReader == InitReader /\ [][NextReader]_vars

\* the reader, observed in ev, on a ledger anybody writes to
NextIntake ==
  \/ attach
  \/ Reader(ReadRequests)
InitIntake == Init /\ watch = "reader"
SpecIntake == InitIntake /\ [][NextIntake]_vars

\* the public mode, observed in ev: publishing, the reads and subscriptions
\* of the instance, the static reads
PublicRequests ==
  [message : {<<"A">>}, index : Opt(Indexes), nextRoot : {"undefined"}]
NextPublic ==
  \/ Public(PublicRequests, IndexRequests)
  \/ subscribePublic(IndexRequests)
  \/ publishResolved
  \/ unsubscribe
  \/ deliver
  \/ fetchPublicStatic
  \/ fetchPublicMessages
InitPublic == Init /\ watch = "public"
SpecPublic == InitPublic /\ [][NextPublic]_vars

\* The reader of the example: the owner publishes the messages of a channel
\* of MaxChain + 1 indexes one after the other, the reader was built from
\* the channel root alone and subscribes, from an instance or through the
\* static subscribeIndex; calls records what its subscriptions do.
ChainIndexes == 0 .. MaxChain
\* the requests of its subscribe calls: nothing, an index, an end or both,
\* among the first indexes of the channel
FollowRequests ==
  {r \in ReadRequests :
     r.start = <<>> /\ r.index \in Opt(Indexes) /\ r.end \in Opt(Indexes)}
NextFollow ==
  \/ publishElsewhere
  \/ subscribe(FollowRequests, BOOLEAN, MaxFollow)
  \/ subscribeIndex(Indexes, BOOLEAN, MaxFollow)
  \/ unsubscribe
  \/ deliver
InitFollow ==
  /\ messages = [i \in ChainIndexes |-> <<>>]
  /\ branches = [i \in ChainIndexes |-> "undefined"]
  /\ cursor = 0
  /\ channelPassword = FALSE
  /\ ledger = <<>>
  /\ transfers = {}
  /\ signed = [sigs |-> {}, count |-> 0]
  /\ published = {}
  /\ subs = <<>>
  /\ stream = <<>>
  /\ ev = Unobserved
  /\ watch = "subscribe"
  /\ zmq = Unconnected
  /\ handles = <<>>
  /\ calls = <<>>
SpecFollow == InitFollow /\ [][NextFollow]_vars

\* the module zmq under any caller, observed in ev
NextZmq ==
  \/ setServerAddress
  \/ zmqSubscribe(Callbacks)
  \/ zmqUnsubscribe
  \/ onMessage(Records)
InitZmq == Init /\ watch = "zmq" /\ ~channelPassword
SpecZmq == InitZmq /\ [][NextZmq]_vars

\* ------------------------------------------------------- the record framing
\* The framing of message.createTransfers and message.processBundle, by the
\* lengths of the strings they cut and join.

\* the length of helpers.intToTrytes(value): its digits to the base 27
RECURSIVE trytesLength(_)
trytesLength(value) ==
  IF value < 27 THEN 1 ELSE 1 + trytesLength(value \div 27)

\* the length of intToPaddedTrytes(value, length): padded, never cut
intToPaddedTrytesLength(value, length) == Max(trytesLength(value), length)

\* helpers.trytesToInt of the first `length` trytes of
\* intToPaddedTrytes(value, length)
RECURSIVE leadingTrytesToInt(_, _)
leadingTrytesToInt(value, length) ==
  IF trytesLength(value) <= length THEN value
  ELSE leadingTrytesToInt(value \div 27, length)

\* helpers.padTrytesMultipleOf
padTrytesMultipleOf(base, minLength, length) ==
  IF length <= minLength THEN minLength ELSE Ceil(length, base) * base

\* the tryte createTransfers writes for the two security levels, as its
\* position in the alphabet
securityTryte(nextRootSec, security) == nextRootSec * 4 + security - 1

\* message.createTransfers on a message of `length` trytes at `index`, a
\* tree of `height`, keys of `security` and a nextRoot of security `nextRootSec`
\* (0: none): the error it throws or the records it emits
createTransfersOf(length, index, height, security, nextRootSec) ==
  LET header == intToPaddedTrytesLength(index, INDEX_TRYTES) + SECURITY_TRYTES
                  + intToPaddedTrytesLength(height, HEIGHT_TRYTES)
                  + intToPaddedTrytesLength(length, MESSAGE_LENGTH_TRYTES)
      payload == header + length + (height + 1) * security * HASH_TRYTES
                   + nextRootSec * HASH_TRYTES
      fragment == padTrytesMultipleOf(MESSAGE_FRAGMENT_TRYTES,
                                      MESSAGE_FRAGMENT_TRYTES, payload)
      res == IF length > 27 ^ MESSAGE_LENGTH_TRYTES THEN "INVALID_LENGTH"
             ELSE IF security < 1 \/ security > 4
                  THEN "INVALID_SECURITY_LEVEL"
             ELSE IF height < 1 \/ height > MAX_HEIGHT THEN "INVALID_HEIGHT"
             ELSE IF index < 0 \/ index >= 2 ^ height THEN "INVALID_INDEX"
             ELSE "ok"
  IN [op |-> "createTransfers", res |-> res, length |-> length,
      index |-> index, height |-> height, security |-> security, nextRootSec |-> nextRootSec,
      header |-> IF res = "ok" THEN header ELSE 0,
      tryte |-> securityTryte(nextRootSec, security),
      payload |-> IF res = "ok"
                  THEN Ceil(fragment, MESSAGE_FRAGMENT_TRYTES) ELSE 0,
      sig |-> IF res = "ok" THEN signatureRecords(security) ELSE 0,
      parsed |-> <<>>]

\* the trytes processBundle joins from the records 1 .. count - 1
\* after the first: each cut by slice(0, remainingLength), which counts a
\* negative end from the end of the record
RECURSIVE cipherTail(_, _, _)
cipherTail(i, count, remainingLength) ==
  IF i >= count THEN 0
  ELSE (IF remainingLength >= MESSAGE_FRAGMENT_TRYTES
        THEN MESSAGE_FRAGMENT_TRYTES
        ELSE IF remainingLength >= 0 THEN remainingLength
        ELSE Max(MESSAGE_FRAGMENT_TRYTES + remainingLength, 0))
       + cipherTail(i + 1, count, remainingLength - MESSAGE_FRAGMENT_TRYTES)

\* message.processBundle on the records t of createTransfers, read with the
\* key they were encrypted with: the lengths it computes and, per field,
\* whether the trytes it returns are those createTransfers was given
processBundleOf(t) ==
  LET security == (t.tryte % 4) + 1
      nextRootLength == (t.tryte \div 4) * HASH_TRYTES
      messageLength == leadingTrytesToInt(t.length, MESSAGE_LENGTH_TRYTES)
      hashLength == security * HASH_TRYTES
      payloadLength == messageLength + (t.height + 1) * hashLength
                         + nextRootLength
      transactions == Ceil(payloadLength, MESSAGE_FRAGMENT_TRYTES)
      cipher == MESSAGE_FRAGMENT_TRYTES
                  + cipherTail(1, transactions,
                               payloadLength
                                 - (MESSAGE_FRAGMENT_TRYTES - PREFIX_LENGTH))
      decrypted == cipher - PREFIX_LENGTH
      aligned == t.header = PREFIX_LENGTH /\ messageLength = t.length
      startHashes == messageLength + hashLength
      endHashes == startHashes + t.height * hashLength
  IN [payloadTransactions |-> transactions,
      security |-> security,
      message |-> aligned /\ messageLength <= decrypted,
      verifyingKey |-> aligned /\ startHashes <= decrypted,
      authPathHashes |-> aligned /\ endHashes <= decrypted,
      nextRoot |-> aligned /\ endHashes + nextRootLength <= decrypted,
      signature |-> transactions = t.payload]

\* the heights of the trees framed: the lowest and the highest
CodecHeights == (1 .. MaxCodecHeight) \cup {MAX_HEIGHT}

\* the message lengths framed: the empty message, the lengths about the
\* limit of the length field, and the lengths that bring the payload to
\* within Window trytes of a whole number of fragments
CodecLengths(height, security, nextRootSec) ==
  LET rest == PREFIX_LENGTH + (height + 1) * security * HASH_TRYTES
                + nextRootSec * HASH_TRYTES
      limit == 27 ^ MESSAGE_LENGTH_TRYTES
      about == {k * MESSAGE_FRAGMENT_TRYTES - rest + d :
                  k \in 1 .. MaxFragments, d \in (0 - Window) .. Window}
  IN {l \in {0, limit - 1, limit, limit + 1} \cup about : l >= 0}

\* the inputs of createTransfers: a message by its length, the first or the
\* last index of the tree, the security of the keys and of the nextRoot
CodecInputs ==
  {[op |-> "input", length |-> length, index |-> index, height |-> height,
    security |-> security, nextRootSec |-> nextRootSec] :
     length \in UNION {CodecLengths(h, s, n) :
                         h \in CodecHeights, s \in 1 .. 4, n \in 0 .. 4},
     index \in {0} \cup {2 ^ h - 1 : h \in CodecHeights},
     height \in CodecHeights, security \in 1 .. 4, nextRootSec \in 0 .. 4}

\* createTransfers on the input
createTransfers ==
  /\ watch = "codec"
  /\ ev.op = "input"
  /\ ev' = createTransfersOf(ev.length, ev.index, ev.height, ev.security,
                             ev.nextRootSec)
  /\ UNCHANGED <<messages, branches, cursor, channelPassword, ledger,
                 transfers, signed, published, subs, stream,
                 watch, zmq, handles, calls>>

\* processBundle on the records createTransfers emitted
parseTransfers ==
  /\ watch = "codec"
  /\ ev.op = "createTransfers"
  /\ ev.res = "ok"
  /\ ev' = [ev EXCEPT !.op = "processBundle",
                      !.parsed = <<processBundleOf(ev)>>]
  /\ UNCHANGED <<messages, branches, cursor, channelPassword, ledger,
                 transfers, signed, published, subs, stream,
                 watch, zmq, handles, calls>>

\* the framing alone, of every input
NextCodec ==
  \/ createTransfers
  \/ parseTransfers
InitCodec ==
  /\ messages = [i \in Indexes |-> <<>>]
  /\ branches = [i \in Indexes |-> "undefined"]
  /\ cursor = 0
  /\ channelPassword = FALSE
  /\ ledger = <<>>
  /\ transfers = {}
  /\ signed = [sigs |-> {}, count |-> 0]
  /\ published = {}
  /\ subs = <<>>
  /\ stream = <<>>
  /\ ev \in CodecInputs
  /\ watch = "codec"
  /\ zmq = Unconnected
  /\ handles = <<>>
  /\ calls = <<>>
SpecCodec == InitCodec /\ [][NextCodec]_vars

\* ------------------------------------------------------------------ claims
\* the two operations that validate and sign a message
CreateOps == {"createMessageTransfers", "publish"}

\* the steps of the publisher as ev names them
PublisherOps ==
  CreateOps \cup {"publishMessageTransfers", "published", "submitted",
                  "publishRejected"}

\* a string of trytes, the empty string included
TrytesOrEmpty(message) == \A k \in 1 .. Len(message) : message[k] \in alphabet

\* C1: once messages[i] holds a message, no later fetch, syncChannel,
\* subscription callback, publish or publishMessageTransfers changes it.
C1_MessagesNeverChange ==
  [][\A i \in Indexes : Defined(messages[i]) => messages'[i] = messages[i]]_vars

\* C2: after a publish of a trytes message (the empty one included) has
\* succeeded at index i, every later createMessageTransfers or publish of a
\* trytes message at index i fails with INDEX_USED, signs nothing and hands
\* nothing to the ledger.
C2_RepublishRejected ==
  [][(/\ ev'.op \in CreateOps
      /\ ev'.idx \in published
      /\ TrytesOrEmpty(ev'.msg))
       => (/\ ev'.res = "INDEX_USED"
           /\ UNCHANGED <<signed, transfers, ledger>>)]_vars

\* C3: the key of a leaf signs at most one distinct digest.
C3_OneDigestPerLeaf ==
  \A a \in signed.sigs, b \in signed.sigs : a[1] = b[1] => a[2] = b[2]

\* C4 as stated: createMessageTransfers and publish reject every index that
\* is smaller than the cursor.  Stated for the indexes where nothing is
\* cached, where the outcome does not rest on how a cached empty message is
\* treated.
C4_BelowCursorRejected ==
  [][(/\ ev'.op \in CreateOps
      /\ ev'.idx < cursor
      /\ ~Defined(Get(messages, ev'.idx)))
       => ev'.res # "ok"]_vars

\* C4 amended: for a trytes message and an index of the channel below the
\* cursor, createMessageTransfers and publish succeed when no message is
\* cached at the index and fail with INDEX_USED when a non-empty message is
\* cached there.
C4_CachedIndexRejected ==
  [][(/\ ev'.op \in CreateOps
      /\ ev'.idx \in Indexes
      /\ ev'.idx < cursor
      /\ TrytesOrEmpty(ev'.msg))
       => (/\ ~Defined(messages[ev'.idx]) => ev'.res = "ok"
           /\ Truthy(messages[ev'.idx]) => ev'.res = "INDEX_USED")]_vars

\* a publish accepted at an index below the cursor
C4_Witness ==
  /\ ev.op = "publish"
  /\ ev.res = "ok"
  /\ ev.idx < cursor
  /\ ~Defined(messages[ev.idx])

\* C5: the cursor never decreases, whatever operation is taken.
C5_CursorNeverDecreases == [][cursor' >= cursor]_vars

\* index 1 was published first, index 0 after it: the second publish set the
\* cursor while it was beyond the index published
C5_Witness ==
  /\ Len(ledger) = 2
  /\ ledger[1].index = 1
  /\ ledger[2].index = 0
  /\ published = {0, 1}
  /\ cursor = 2

\* C6 as stated: after a successful publish at idx the cursor is
\* max(cursor before, idx + 1).
C6_CursorIsMax ==
  [][ev'.op = "published" => cursor' = Max(cursor, ev'.idx + 1)]_vars

\* C6 amended: after a successful publish at idx the cursor is the length of
\* messages, which is max(length of messages before, idx + 1).
C6_CursorIsLength ==
  [][ev'.op = "published"
       => (/\ cursor' = Length(messages')
           /\ cursor' = Max(Length(messages), ev'.idx + 1))]_vars

\* a publish at index 0 while index 1 was cached by a fetch alone
C6_Witness ==
  /\ ev.op = "published"
  /\ ev.idx = 0
  /\ published = {0}
  /\ Defined(messages[1])
  /\ cursor = 2

\* C7: a rejected submission leaves messages, branches and cursor as they
\* were, and a step of the publisher changes them only when it adds a bundle
\* to the ledger.
C7_RejectedStoresNothing ==
  [][/\ ev'.op = "publishRejected" => UNCHANGED <<messages, branches, cursor>>
     /\ (/\ ev'.op \in PublisherOps
         /\ <<messages, branches, cursor>>' # <<messages, branches, cursor>>)
          => Len(ledger') = Len(ledger) + 1]_vars

\* the submission of a message for a free index was rejected
C7_Witness ==
  /\ ev.op = "publishRejected"
  /\ ev.idx \in Indexes
  /\ ~Defined(messages[ev.idx])

\* C8: createMessageTransfers and publish fail with INVALID_MESSAGE for a
\* message that is not trytes and, for a trytes message, with INVALID_INDEX
\* for an index below 0 or not below 2^Height; either failure signs nothing,
\* creates no transfers, reaches no ledger and leaves messages, branches and
\* cursor unchanged.
C8_ValidationFirst ==
  [][ev'.op \in CreateOps
       => (/\ ~TrytesOrEmpty(ev'.msg) => ev'.res = "INVALID_MESSAGE"
           /\ (TrytesOrEmpty(ev'.msg) /\ ev'.idx \notin 0 .. (2 ^ Height - 1))
                => ev'.res = "INVALID_INDEX"
           /\ ev'.res \in {"INVALID_MESSAGE", "INVALID_INDEX"}
                => UNCHANGED <<signed, transfers, ledger, messages, branches,
                               cursor>>)]_vars

\* a publish at the first index beyond the channel was refused
C8_Witness ==
  /\ ev.op = "publish"
  /\ ev.idx = 2 ^ Height
  /\ ev.res = "INVALID_INDEX"
  /\ signed.count = 0

\* C9: fetch and syncChannel never query the ledger for an index whose
\* message is in the cache when they start.
C9_CachedNeverQueried ==
  [][ev'.op \in {"fetch", "syncChannel"}
       => \A k \in 1 .. Len(ev'.q) : ~Defined(Get(messages, ev'.q[k]))]_vars

\* the first index from s on with no message in the cache
RECURSIVE firstUncached(_, _)
firstUncached(msgs, s) ==
  IF Defined(Get(msgs, s)) THEN firstUncached(msgs, s + 1) ELSE s

\* C10: fetch with a start and no end queries the ledger beginning at the
\* first uncached index from start on, in ascending order, and stops at the
\* first index where no message is found.
C10_OpenFetchFromStart ==
  [][(ev'.op = "fetch" /\ ev'.open)
       => LET q == ev'.q
          IN /\ q # <<>>
             /\ q[1] = firstUncached(messages, ev'.start)
             /\ \A k \in 1 .. (Len(q) - 1) :
                  q[k] < q[k + 1]
                    /\ fetchSingle(q[k], "default", <<Security>>).found
             /\ ~fetchSingle(q[Len(q)], "default", <<Security>>).found]_vars

\* C11: after syncChannel the cursor is the smallest index with no message in
\* the cache.
C11_CursorAtFirstHole ==
  [][ev'.op = "syncChannel" => cursor' = firstUncached(messages', 0)]_vars

\* the elements of a sequence
Range(seq) == {seq[k] : k \in 1 .. Len(seq)}

ReadOps == {"fetch", "syncChannel"}

\* the bundle the reader parses at index i does not verify or authenticate
failsAt(i) ==
  LET r == getMessage(i, "default", <<Security>>)
  IN r.message # <<>> /\ processMessage(ledger[r.message[1]]) # "ok"

\* a bundle at index i parses, verifies and authenticates
validAt(i) == fetchSingle(i, "default", <<Security>>).found

\* C12: when the bundle parsed at a queried index i fails verification or
\* authentication, fetch has VERIFICATION_FAILED or AUTHENTICATION_FAILED
\* among its errors and leaves messages[i] and branches[i] as they were.
C12_FailureNotCached ==
  [][ev'.op \in ReadOps
       => \A i \in Indexes :
            (i \in Range(ev'.q) /\ failsAt(i))
              => (/\ fetchSingle(i, "default", <<Security>>).error
                       \in Range(ev'.errors)
                               \cap {"VERIFICATION_FAILED",
                                     "AUTHENTICATION_FAILED"}
                  /\ messages'[i] = messages[i]
                  /\ branches'[i] = branches[i])]_vars

\* a fetch met a bundle at index 0 that does not authenticate
C12_Witness ==
  /\ ev.op = "fetch"
  /\ ev.failed = <<0>>
  /\ ev.errors = <<"AUTHENTICATION_FAILED">>
  /\ ~Defined(messages[0])
  /\ branches[0] = "undefined"

\* index j lies in the range the observed request stands for
inRange(e, j) == j >= e.start /\ (e.end = <<>> \/ j <= e.end[1])

ParseErrors ==
  {"SHORT_MESSAGE", "WRONG_INDEX", "WRONG_SECURITY", "WRONG_HEIGHT",
   "TypeError"}

\* what the caller may expect of the security level: nothing, or the
\* channel's
SecurityOptions == {<<>>, <<Security>>}

\* the positions in ledger of the bundles of at least two records at the
\* address of index i
TriedAt(i) ==
  {p \in 1 .. Len(ledger) : ledger[p].index = i /\ ledger[p].records >= 2}

\* C14: at one address the bundles are tried in ascending timestamp order:
\* the bundle returned parses, every bundle with an earlier timestamp is in
\* skipped with its id and the error of its parse, skipped is in timestamp
\* order, with no bundle returned every bundle is in skipped, and fetchSingle
\* throws no parse error.
C14_FirstParsingBundleWins ==
  \A i \in Indexes, key \in {"default", "other"}, security \in SecurityOptions :
    LET r == getMessage(i, key, security)
        sk == r.skipped
        ids == {sk[k].bundle : k \in 1 .. Len(sk)}
    IN /\ \A k \in 1 .. Len(sk) :
            /\ sk[k].bundle \in TriedAt(i)
            /\ sk[k].error = processBundle(ledger[sk[k].bundle], key, security)
            /\ sk[k].error \in ParseErrors
       /\ \A k \in 1 .. (Len(sk) - 1) :
            ledger[sk[k].bundle].timestamp <= ledger[sk[k + 1].bundle].timestamp
       /\ IF r.message = <<>> THEN ids = TriedAt(i)
          ELSE /\ r.message[1] \in TriedAt(i) \ ids
               /\ processBundle(ledger[r.message[1]], key, security) = "ok"
               /\ \A p \in TriedAt(i) :
                    ledger[p].timestamp < ledger[r.message[1]].timestamp
                      => p \in ids
               /\ \A p \in ids :
                    ledger[p].timestamp <= ledger[r.message[1]].timestamp
       /\ fetchSingle(i, key, security).error \notin ParseErrors

\* at index 0 the bundle attached second carries the earlier timestamp and
\* does not parse; a fetch skipped it and cached the one attached first
C14_Witness ==
  /\ Len(ledger) = 2
  /\ ledger[1].timestamp > ledger[2].timestamp
  /\ getMessage(0, "default", <<Security>>)
       = [message |-> <<1>>,
          skipped |-> <<[bundle |-> 2, error |-> "WRONG_INDEX"]>>]
  /\ ev.op = "fetch"
  /\ 0 \in Range(ev.q)
  /\ Defined(messages[0])

\* a bundle with fewer than 2 records, or with fewer records than its payload
\* and a signature of the security level in its header take
Short(b) ==
  \/ b.records < 2
  \/ b.records < payloadTransactionsOf(b) + signatureRecords(b.security)

\* C15: a short bundle is never the one returned and, when it is reached
\* before a bundle is returned, it is in skipped with SHORT_MESSAGE, whether
\* or not the caller expects a security level.
C15_ShortBundleSkipped ==
  \A i \in Indexes, security \in SecurityOptions :
    LET r == getMessage(i, "default", security)
    IN \A p \in 1 .. Len(ledger) :
         (ledger[p].index = i /\ ledger[p].key = "default" /\ Short(ledger[p]))
           => /\ r.message # <<p>>
              /\ (\/ r.message = <<>>
                  \/ ledger[p].timestamp < ledger[r.message[1]].timestamp)
                   => [bundle |-> p, error |-> "SHORT_MESSAGE"]
                        \in Range(r.skipped)

\* C16: for every message shorter than 27^3 trytes, every height, security
\* and nextRoot security, processBundle decrypts as many payload records as
\* createTransfers emitted and returns the message, the verifying key, the
\* auth path, the nextRoot and the signature it was given.
C16_ParseReturnsOriginal ==
  (ev.op = "processBundle" /\ ev.length < 27 ^ MESSAGE_LENGTH_TRYTES)
    => LET parsed == ev.parsed[1]
       IN /\ parsed.payloadTransactions = ev.payload
          /\ parsed.security = ev.security
          /\ parsed.message
          /\ parsed.verifyingKey
          /\ parsed.authPathHashes
          /\ parsed.nextRoot
          /\ parsed.signature

\* C17: createTransfers rejects every message of 27^3 trytes or more with
\* INVALID_LENGTH, and the header of every message it accepts has 11 trytes.
C17_LengthFieldFits ==
  ev.op = "createTransfers"
    => /\ ev.length >= 27 ^ MESSAGE_LENGTH_TRYTES => ev.res = "INVALID_LENGTH"
       /\ ev.res = "ok" => ev.header = PREFIX_LENGTH

\* every record at the address of index i is a genuine message of the
\* channel encrypted with a message password the reader does not pass
otherPasswordAt(i) ==
  /\ \E p \in 1 .. Len(ledger) : ledger[p].index = i
  /\ \A p \in 1 .. Len(ledger) :
       ledger[p].index = i
         => ledger[p] = Foreign(i, ledger[p].timestamp, "otherKey")

\* C18: on a channel with a channel password, a fetch that queries an index
\* whose message is encrypted with another message password than the one
\* passed has VERIFICATION_FAILED for that index among its errors and caches
\* nothing there.
C18_WrongPasswordFails ==
  (channelPassword /\ ev.op \in ReadOps)
    => \A i \in Indexes :
         (i \in Range(ev.q) /\ otherPasswordAt(i))
           => /\ \E k \in 1 .. Len(ev.failed) :
                   ev.failed[k] = i /\ ev.errors[k] = "VERIFICATION_FAILED"
              /\ ~Defined(messages[i])

\* the two static reads of public messages
StaticReads == {"RAAMReader.fetchPublic", "RAAMReader.fetchPublicMessages"}

\* the positions in ledger of the messages published in public mode at
\* index i
publicAt(i) ==
  {p \in 1 .. Len(ledger) : ledger[p].index = i /\ ledger[p].key = "public"}

\* C19: a static fetchPublic or fetchPublicMessages that is given only the
\* address of a message published in public mode, no channel root and no
\* index, returns that message and the channel root R without an error.
C19_StaticReadReturnsMessage ==
  (ev.op \in StaticReads /\ ev.index = <<>> /\ ~ev.channelRoot)
    => \A a \in ev.addresses :
         publicAt(a) # {}
           => /\ ev.results[a].res = "ok"
              /\ \E p \in publicAt(a) :
                   ev.results[a].message = <<ledger[p].message>>
              /\ ev.results[a].channelRoot = "R"

\* the operations of an instance in public mode
PublicOps ==
  {"createPublicMessageTransfers", "publishPublic", "fetchPublic",
   "subscribePublic"}

\* C20: on an instance with a channel password, createPublicMessageTransfers,
\* publishPublic, fetchPublic and subscribePublic fail with
\* PUBLIC_NOT_ALLOWED; nothing is signed, submitted, queried or subscribed
\* and messages, branches and cursor stay as they are.
C20_PublicNotAllowed ==
  [][(channelPassword /\ ev'.op \in PublicOps)
       => /\ ev'.res = "PUBLIC_NOT_ALLOWED"
          /\ ev'.q = <<>>
          /\ UNCHANGED <<messages, branches, cursor, signed, transfers,
                         ledger, subs, stream>>]_vars

\* publishPublic was refused on an instance with a channel password
C20_Witness ==
  /\ channelPassword
  /\ ev.op = "publishPublic"
  /\ ev.res = "PUBLIC_NOT_ALLOWED"
  /\ signed.count = 0
  /\ ledger = <<>>

\* ------------------------------------------------ claims on the module zmq
\* C30: a subscribe issued while no connection is open and no server URL has
\* ever been set fails with URL_NOT_SET, registers no callback and opens no
\* connection
C30_SubscribeWithoutUrl ==
  [][(ev'.op = "subscribe" /\ zmq.connectedTo = <<>>
        /\ zmq.serverAddress = <<>>)
       => (ev'.res = "URL_NOT_SET" /\ zmq' = zmq /\ handles' = handles
             /\ noSubscriptions(zmq') /\ zmq'.open = 0)]_vars
C30_Witness ==
  /\ ev.op = "subscribe" /\ ev.res = "URL_NOT_SET"
  /\ zmq.serverAddress = <<>> /\ zmq.connectedTo = <<>>
  /\ noSubscriptions(zmq) /\ handles = <<>>

C25_SecondUnsubscribeChangesNothing ==
  [][(ev'.op = "unsubscribe" /\ ev'.again) => zmq' = zmq]_vars

\* C22: a bundle that becomes complete is handed to every callback that is
\* registered at its address at that moment, once each, whatever the
\* callbacks unsubscribe while they run
C22_EveryCallbackInvokedOnce ==
  [][(ev'.op = "message" /\ ev'.dispatched # <<>>)
       => ev'.invoked = ev'.registered]_vars

\* C23: a bundle is dispatched only with one record for each currentIndex
\* 0 .. lastIndex, in ascending order, whatever the order of delivery and
\* also when a record is delivered more than once
C23_DispatchedBundleIsComplete ==
  [][(ev'.op = "message" /\ ev'.dispatched # <<>>)
       => LET bundle == ev'.dispatched[1]
          IN \A k \in 1 .. Len(bundle) : bundle[k] = k - 1]_vars

\* ------------------------------------------- claims on the reader's caches
\* the nextRoot of the bundles on the ledger at index i
carriedAt(i) ==
  {ledger[k].nextRoot : k \in {p \in 1 .. Len(ledger) : ledger[p].index = i}}

\* C21: for every cached index, branches holds the nextRoot of its message
\* if the message carries one and is unset if it carries none, however the
\* message came into the cache
C21_BranchesFollowMessages ==
  \A i \in Indexes :
    (Defined(messages[i]) /\ Cardinality(carriedAt(i)) = 1)
      => \A n \in carriedAt(i) : branches[i] = n

\* ------------------------------------------- claims on the subscriptions
\* the indexes of lo .. hi the cache does not hold, in ascending order
RECURSIVE uncached(_, _)
uncached(lo, hi) ==
  IF lo > hi THEN <<>>
  ELSE (IF Defined(Get(messages, lo)) THEN <<>> ELSE <<lo>>)
         \o uncached(lo + 1, hi)

\* the indexes of the callbacks registered behind the first n
registeredBehind(registered, n) ==
  [k \in 1 .. (Len(registered) - n) |-> registered[n + k].index]

\* C29: subscribe over a range with cached indexes returns without an error,
\* registers callbacks for the uncached indexes of the range and no other,
\* and invokes no callback, also when the whole range is cached
C29_CachedIndexesOmitted ==
  [][(/\ ev'.op = "subscribe" /\ ev'.end # <<>> /\ ev'.start <= ev'.end[1]
      /\ \E i \in ev'.start .. ev'.end[1] : Defined(Get(messages, i)))
       => (/\ ev'.res = "ok"
           /\ Len(subs') >= Len(subs)
           /\ registeredBehind(subs', Len(subs))
                = uncached(ev'.start, ev'.end[1])
           /\ \A k \in 1 .. Len(calls') :
                k > Len(calls) => calls'[k].op \in {"subscribe",
                                                    "subscribeFollowing"})]_vars

\* no index has two callbacks registered by the reader instance
oncePerIndex(registered) ==
  \A j, k \in 1 .. Len(registered) :
    (j # k /\ ~registered[j].static /\ ~registered[k].static)
      => registered[j].index # registered[k].index

\* the number of callbacks subscription sid has registered for index i
registeredFor(registered, sid, i) ==
  Cardinality({k \in 1 .. Len(registered) :
                 registered[k].sid = sid /\ registered[k].index = i})

\* C27: when the message of index i arrives at a callback the instance
\* registered with subscribeFollowing, the next index is subscribed if and
\* only if it is neither cached nor subscribed already, and no index comes
\* to have two callbacks of the instance
C27_NextSubscribedOnce ==
  [][(ev'.op = "deliver" /\ oncePerIndex(subs))
       => (/\ oncePerIndex(subs')
           /\ \A k \in 1 .. Len(subs) :
                LET r == subs[k]
                    next == r.index + 1
                    arrived ==
                      \E c \in (Len(calls) + 1) .. Len(calls') :
                        /\ calls'[c].op = "callback"
                        /\ calls'[c].sid = r.sid
                        /\ calls'[c].index = r.index
                    added ==
                      registeredFor(subs', r.sid, next)
                        > registeredFor(subs, r.sid, next)
                IN (~r.static /\ r.following /\ ~r.quits /\ arrived)
                     => (added <=>
                           (/\ ~Defined(Get(messages', next))
                            /\ \A j \in 1 .. Len(subs) :
                                 subs[j].index # next)))]_vars

\* C26: once unsubscribe() of a subscription has been called, by the caller
\* or from inside its callback, its callback is not invoked again and none
\* of its callbacks stays registered
C26_UnsubscribedStaysSilent ==
  \A c \in 1 .. Len(calls) :
    calls[c].op \in {"unsubscribe", "inside"}
      => /\ \A d \in (c + 1) .. Len(calls) :
              calls[d].sid = calls[c].sid
                => calls[d].op \notin {"callback", "error"}
         /\ \A k \in 1 .. Len(subs) : subs[k].sid # calls[c].sid

\* the indexes of the bundles the stream has delivered, in order
RECURSIVE deliveredIn(_)
deliveredIn(log) ==
  IF log = <<>> THEN <<>>
  ELSE (IF Head(log).op = "deliver" THEN <<Head(log).index>> ELSE <<>>)
         \o deliveredIn(Tail(log))

\* the callback invocations of subscription sid in log, in order
RECURSIVE invocationsOf(_, _)
invocationsOf(log, sid) ==
  IF log = <<>> THEN <<>>
  ELSE (IF Head(log).sid = sid /\ Head(log).op \in {"callback", "error"}
        THEN <<Head(log)>> ELSE <<>>)
         \o invocationsOf(Tail(log), sid)

\* C28: a reader subscribed from index 0 with subscribeFollowing, to which
\* the stream has delivered the bundles of the indexes 0 .. n in this
\* order, has had its callback invoked once for each of them, in this
\* order, each time with the message in the cache
C28_CallbackOncePerIndexInOrder ==
  (/\ calls # <<>>
   /\ calls[1].op = "subscribeFollowing" /\ calls[1].index = 0
   /\ \A c \in 1 .. Len(calls) :
        calls[c].sid = calls[1].sid
          => calls[c].op \notin {"unsubscribe", "inside"}
   /\ deliveredIn(calls) = [k \in 1 .. Len(deliveredIn(calls)) |-> k - 1])
    => LET invocations == invocationsOf(calls, calls[1].sid)
       IN /\ Len(invocations) = Len(deliveredIn(calls))
          /\ \A k \in 1 .. Len(invocations) :
               /\ invocations[k].op = "callback"
               /\ invocations[k].index = k - 1
               /\ invocations[k].cached

\* ------------------------------------------------------------------ sign.js
\* The trytes of a message digest: Kerl squeezes one hash of 243 trits, three
\* trytes for every key fragment of a security level.
DigestTrytes == 3 * KeyFragments
\* the values of a tryte
TryteValues == (0 - 13) .. 13
RawDigests == [1 .. DigestTrytes -> TryteValues]
\* digests at the ends of the range, for a pair of messages
SignValues == {0 - 13, 0, 12, 13}
SignMessages == {<<"A">>, <<"A", "9">>, <<"B">>}

\* helpers.padTritsMultipleOf: the length the trits are padded to
padTritsMultipleOf(base, minLength, length) ==
  IF length <= minLength THEN minLength ELSE ((length \div base) + 1) * base

\* what getMessageDigest absorbs: the trits of the message, three a tryte,
\* padded with zero trits, which are the trytes "9"
padded(trytes) ==
  LET length == padTritsMultipleOf(3 * HASH_TRYTES, 3 * HASH_TRYTES,
                                   3 * Len(trytes)) \div 3
  IN  [k \in 1 .. length |-> IF k <= Len(trytes) THEN trytes[k] ELSE "9"]

\* getMessageDigest: the hash Kerl squeezes after absorbing the padded
\* message.  Kerl is any function without collisions: in the input in equal
\* absorbed trits have the same digest, and different ones different digests.
getMessageDigest(in, trytes) ==
  IF padded(trytes) = padded(in.message) THEN in.digest ELSE in.otherDigest

RECURSIVE sum(_)
sum(values) ==
  IF values = <<>> THEN 0 ELSE Head(values) + sum(Tail(values))

\* normalization that leaves the value 13 in place
keepThirteens(values) == values

\* while some value is 13: the first 13 is decremented
RECURSIVE lowerThirteens(_)
lowerThirteens(values) ==
  LET found == {j \in DOMAIN values : values[j] = 13}
  IN  IF found = {} THEN values
      ELSE lowerThirteens(
             [values EXCEPT ![CHOOSE j \in found : \A k \in found : j <= k]
                              = @ - 1])

\* the inner for loop of the branch sum >= 0: the first value that is not 14
\* and above -13 is decremented
decrementFirst(values) ==
  LET found == {j \in DOMAIN values : values[j] # 14 /\ values[j] > 0 - 13}
  IN  IF found = {} THEN values
      ELSE [values EXCEPT ![CHOOSE j \in found : \A k \in found : j <= k]
                            = @ - 1]

\* the inner for loop of the branch sum < 0: the first value that is not 12
\* and below 13 is incremented
incrementFirst(values) ==
  LET found == {j \in DOMAIN values : values[j] # 12 /\ values[j] < 13}
  IN  IF found = {} THEN values
      ELSE [values EXCEPT ![CHOOSE j \in found : \A k \in found : j <= k]
                            = @ + 1]

\* while (sum-- > 0)
RECURSIVE decrementing(_, _)
decrementing(values, s) ==
  IF s > 0 THEN decrementing(decrementFirst(values), s - 1) ELSE values

\* while (sum++ < 0)
RECURSIVE incrementing(_, _)
incrementing(values, s) ==
  IF s < 0 THEN incrementing(incrementFirst(values), s + 1) ELSE values

\* normalizeMessageDigest on the tryte values of a raw digest
normalizeMessageDigest(messageDigest) ==
  LET values == lowerThirteens(messageDigest)
      s == sum(values)
  IN  IF s >= 0 THEN decrementing(values, s) ELSE incrementing(values, s)

\* A key fragment is written as its number and the times it has been
\* hashed: the private key holds every fragment unhashed.
createPrivateKey(security) ==
  [p \in 1 .. (KeyFragments * security) |-> [fragment |-> p - 1, rounds |-> 0]]

\* signing.digests: every fragment hashed 26 times, and one hash over the
\* fragments of each security level
createPublicKey(pk) ==
  [i \in 1 .. (Len(pk) \div KeyFragments) |->
     [j \in 1 .. KeyFragments |->
        [pk[(i - 1) * KeyFragments + j] EXCEPT !.rounds = @ + 26]]]

\* the digest value applied to key fragment i
appliedTo(messageDigest, i) == messageDigest[(i % Len(messageDigest)) + 1]

\* the values applied to the fragAmount key fragments
applied(messageDigest, fragAmount) ==
  [p \in 1 .. fragAmount |-> appliedTo(messageDigest, p - 1)]

\* createSignature: fragment i is hashed 13 - messageDigest[i % length] times
createSignature(pk, messageDigest) ==
  [p \in 1 .. Len(pk) |->
     [pk[p] EXCEPT !.rounds = @ + (13 - appliedTo(messageDigest, p - 1))]]

\* verifyMessage: fragment j of level i is hashed
\* messageDigest[(i * PK_FRAGMENTS + j) % length] + 13 times, the fragments
\* of a level are hashed together and the result is compared with pub
verifyMessage(signature, messageDigest, pub) ==
  LET security == Len(signature) \div KeyFragments
      digests ==
        [i \in 1 .. security |->
           [j \in 1 .. KeyFragments |->
              [signature[(i - 1) * KeyFragments + j] EXCEPT
                 !.rounds = @ + appliedTo(messageDigest,
                                          (i - 1) * KeyFragments + j - 1)
                              + 13]]]
  IN  pub = digests

\* a security level, a message and a second one, and the digests Kerl gives
\* them: every raw digest for one message, and the digests at the ends of
\* the range for two
SignInputs ==
  {[op |-> "input", security |-> security, message |-> <<"A">>,
    other |-> <<"A">>, digest |-> raw, otherDigest |-> raw] :
     security \in 1 .. 4, raw \in RawDigests}
  \cup
  {in \in [op : {"input"}, security : 1 .. 4, message : SignMessages,
           other : SignMessages,
           digest : [1 .. DigestTrytes -> SignValues],
           otherDigest : [1 .. DigestTrytes -> SignValues]] :
     (padded(in.message) = padded(in.other)) <=> (in.digest = in.otherDigest)}

\* createSignature with the key of the security level on the message
sign ==
  /\ watch = "sign"
  /\ ev.op = "input"
  /\ LET pk == createPrivateKey(ev.security)
         messageDigest ==
           normalizeMessageDigest(getMessageDigest(ev, ev.message))
     IN  ev' = [op |-> "createSignature", security |-> ev.security,
                message |-> ev.message, other |-> ev.other,
                digest |-> ev.digest, otherDigest |-> ev.otherDigest,
                messageDigest |-> messageDigest,
                applied |-> applied(messageDigest, Len(pk)),
                signature |-> createSignature(pk, messageDigest)]
  /\ UNCHANGED <<messages, branches, cursor, channelPassword, ledger,
                 transfers, signed, published, subs, stream,
                 watch, zmq, handles, calls>>

\* verifyMessage of the signature on the message signed or on the other one
verify ==
  /\ watch = "sign"
  /\ ev.op = "createSignature"
  /\ \E against \in {ev.message, ev.other} :
       LET messageDigest ==
             normalizeMessageDigest(getMessageDigest(ev, against))
           pub == createPublicKey(createPrivateKey(ev.security))
       IN  ev' = [op |-> "verifyMessage", security |-> ev.security,
                  message |-> ev.message, other |-> ev.other,
                  digest |-> ev.digest, otherDigest |-> ev.otherDigest,
                  messageDigest |-> messageDigest,
                  applied |-> applied(messageDigest, Len(ev.signature)),
                  signature |-> ev.signature, against |-> against,
                  accepted |-> verifyMessage(ev.signature, messageDigest, pub)]
  /\ UNCHANGED <<messages, branches, cursor, channelPassword, ledger,
                 transfers, signed, published, subs, stream,
                 watch, zmq, handles, calls>>

NextSign ==
  \/ sign
  \/ verify
InitSign ==
  /\ messages = [i \in Indexes |-> <<>>]
  /\ branches = [i \in Indexes |-> "undefined"]
  /\ cursor = 0
  /\ channelPassword = FALSE
  /\ ledger = <<>>
  /\ transfers = {}
  /\ signed = [sigs |-> {}, count |-> 0]
  /\ published = {}
  /\ subs = <<>>
  /\ stream = <<>>
  /\ ev \in SignInputs
  /\ watch = "sign"
  /\ zmq = Unconnected
  /\ handles = <<>>
  /\ calls = <<>>
SpecSign == InitSign /\ [][NextSign]_vars

\* C39: for every raw digest normalizeMessageDigest ends and returns values
\* from -13 to 12, none of them 13, that sum to zero
C39_NormalizedInRangeSumZero ==
  ev.op = "createSignature" =>
    /\ Len(ev.messageDigest) = Len(ev.digest)
    /\ \A k \in DOMAIN ev.messageDigest :
         ev.messageDigest[k] \in (0 - 13) .. 12
    /\ sum(ev.messageDigest) = 0

\* a raw digest holding 13 and one summing below zero have been normalized
C39_Witness ==
  /\ ev.op = "createSignature"
  /\ \E k \in DOMAIN ev.digest : ev.digest[k] = 13
  /\ sum(ev.digest) < 0

\* C40: for every security level the values createSignature and
\* verifyMessage apply to the key fragments sum to zero
C40_AppliedValuesSumToZero ==
  ev.op \in {"createSignature", "verifyMessage"} => sum(ev.applied) = 0

\* C32: a signature createSignature made for a message is accepted by
\* verifyMessage for that message and rejected for every other message
C32_OnlyTheSignedMessageAccepted ==
  ev.op = "verifyMessage" => (ev.accepted <=> ev.against = ev.message)

\* ------------------------------------------------- merkle.js, file.js, RAAM
\* Key material is written as sequences of integers: the verifying key of
\* the key pair k is <<k>>, its signing key <<-3, k>>, and the Kerl hash of
\* two hashes absorbed one after the other is <<-1>>, the first, the second,
\* <<-2>>, so that different trees have different hashes.
TreeHeights == 0 .. MaxTreeHeight

\* sign.createKeyPair on the subseed of index k
createKeyPair(k) == [private |-> <<0 - 3, k>>, public |-> <<k>>]

\* Kerl absorbing first and then second, squeezed
hash(first, second) == <<0 - 1>> \o first \o second \o <<0 - 2>>

\* converter.trytes and converter.trits of key material, whose length is a
\* multiple of three trits: the trytes are told from the trits they encode
trytes(t) == [trytes |-> t]
trits(t) == t.trytes

\* getAuthPath: the sibling of the ancestor at every level below the root
getAuthPath(index, h) ==
  [l \in 1 .. h |->
     LET floor == index \div (2 ^ (l - 1))
     IN  IF floor % 2 = 0 THEN floor + 1 ELSE floor - 1]

\* producedHashes that absorbs the hash of the auth path second at every level
RECURSIVE producedHashesLeft(_, _, _, _)
producedHashesLeft(verificationKey, index, authPathHashes, i) ==
  IF i = 0 THEN verificationKey
  ELSE hash(producedHashesLeft(verificationKey, index, authPathHashes, i - 1),
            authPathHashes[i])

\* verifyMerkleTree: producedHashes[i] from producedHashes[i - 1] and the
\* i-th hash of the auth path, which is absorbed second when the ancestor of
\* the leaf is a left child and first when it is a right child
RECURSIVE producedHashes(_, _, _, _)
producedHashes(verificationKey, index, authPathHashes, i) ==
  IF i = 0 THEN verificationKey
  ELSE LET produced ==
             producedHashes(verificationKey, index, authPathHashes, i - 1)
           floor == index \div (2 ^ (i - 1))
       IN  IF floor % 2 = 0 THEN hash(produced, authPathHashes[i])
           ELSE hash(authPathHashes[i], produced)

verifyMerkleTree(public, verificationKey, index, authPathHashes) ==
  trytes(public) =
    trytes(producedHashes(verificationKey, index, authPathHashes,
                          Len(authPathHashes)))

\* buildParents that counts the nodes of a level from one
RECURSIVE buildParentsFromOne(_, _, _)
buildParentsFromOne(stack, hashes, node) ==
  IF Len(stack) > 0 /\ stack[Len(stack)].height = node.height
  THEN LET first == stack[Len(stack)]
           height == first.height + 1
           parent == [hash |-> hash(first.hash, node.hash),
                      height |-> height, index |-> Len(hashes[height]) + 1]
       IN  buildParentsFromOne(SubSeq(stack, 1, Len(stack) - 1),
                               [hashes EXCEPT ![height] = Append(@, parent)],
                               parent)
  ELSE [stack |-> Append(stack, node), hashes |-> hashes]

\* createTree, lines 69-85: while the top of the stack has the height of
\* node, it is popped, hashed with node, and the parent is pushed to its
\* level of hashes and becomes node; node is pushed at last
RECURSIVE buildParents(_, _, _)
buildParents(stack, hashes, node) ==
  IF Len(stack) > 0 /\ stack[Len(stack)].height = node.height
  THEN LET first == stack[Len(stack)]
           height == first.height + 1
           parent == [hash |-> hash(first.hash, node.hash),
                      height |-> height, index |-> Len(hashes[height])]
       IN  buildParents(SubSeq(stack, 1, Len(stack) - 1),
                        [hashes EXCEPT ![height] = Append(@, parent)],
                        parent)
  ELSE [stack |-> Append(stack, node), hashes |-> hashes]

\* hashes.reduce((acc, a) => acc.concat(a), []) from level l upwards
RECURSIVE flatten(_, _)
flatten(hashes, l) ==
  IF l \notin DOMAIN hashes THEN <<>>
  ELSE hashes[l] \o flatten(hashes, l + 1)

\* The lines the file writer appends for one call of the callback: a line
\* with public, private, index and height for every leaf, then a line with
\* hash, index and height for every node.  A key a line does not have is <<>>.
getStringWriter(leafs, hashes) ==
  [k \in 1 .. Len(leafs) |->
     [public |-> <<trytes(leafs[k].public)>>,
      private |-> <<trytes(leafs[k].private)>>, hash |-> <<>>,
      index |-> leafs[k].index, height |-> leafs[k].height]]
  \o
  LET nodes == flatten(hashes, 0)
  IN  [k \in 1 .. Len(nodes) |->
         [public |-> <<>>, private |-> <<>>,
          hash |-> <<trytes(nodes[k].hash)>>,
          index |-> nodes[k].index, height |-> nodes[k].height]]

\* a progress() that leaves nextPushedLeaf where it was
progressRepeating(t) ==
  [t EXCEPT
     !.file = @ \o getStringWriter(
                     SubSeq(t.leafs, t.nextPushedLeaf + 1, Len(t.leafs)),
                     [l \in DOMAIN t.hashes |->
                        SubSeq(t.hashes[l], t.nextPushedHash[l] + 1,
                               Len(t.hashes[l]))]),
     !.invoked = @ + 1,
     !.nextPushedHash = [l \in DOMAIN t.hashes |-> Len(t.hashes[l])]]

\* progress(): the callback gets the leafs from nextPushedLeaf on and of
\* every level the nodes from nextPushedHash on, and both are moved up.  The
\* callback is the file writer.
progress(t) ==
  [t EXCEPT
     !.file = @ \o getStringWriter(
                     SubSeq(t.leafs, t.nextPushedLeaf + 1, Len(t.leafs)),
                     [l \in DOMAIN t.hashes |->
                        SubSeq(t.hashes[l], t.nextPushedHash[l] + 1,
                               Len(t.hashes[l]))]),
     !.invoked = @ + 1,
     !.nextPushedHash = [l \in DOMAIN t.hashes |-> Len(t.hashes[l])],
     !.nextPushedLeaf = Len(t.leafs)]

\* createTree before its loop: an empty stack, no leafs and h + 1 levels
started(h, saveToFile) ==
  [op |-> "createTree", h |-> h, saveToFile |-> saveToFile,
   i |-> 0, stack |-> <<>>, leafs |-> <<>>,
   hashes |-> [l \in 0 .. h |-> <<>>],
   nextPushedLeaf |-> 0,
   nextPushedHash |-> [l \in 0 .. h |-> 0],
   file |-> <<>>, invoked |-> 0, root |-> <<>>]

\* RAAM.fromSeed: createTree up to its loop, with the file writer as the
\* progress callback when the tree is saved to a file
fromSeed ==
  /\ watch = "tree"
  /\ ev.op = "other"
  /\ \E h \in TreeHeights, saveToFile \in BOOLEAN :
       ev' = started(h, saveToFile)
  /\ UNCHANGED <<messages, branches, cursor, channelPassword, ledger,
                 transfers, signed, published, subs, stream,
                 watch, zmq, handles, calls>>

\* lines 61-85 of the loop: the key pair of leaf i and its parents
pushLeaf(t) ==
  LET pair == createKeyPair(t.i)
      leaf == [private |-> pair.private, public |-> pair.public,
               index |-> t.i, height |-> 0]
      built == buildParents(t.stack, t.hashes,
                            [hash |-> leaf.public, height |-> 0,
                             index |-> leaf.index])
  IN  [t EXCEPT !.leafs = Append(@, leaf), !.stack = built.stack,
                !.hashes = built.hashes, !.i = @ + 1]

\* line 92: level 0 of hashes is taken from the leafs
levelled(t) ==
  [t EXCEPT !.hashes[0] =
     [k \in 1 .. Len(t.leafs) |->
        [hash |-> t.leafs[k].public, height |-> t.leafs[k].height,
         index |-> t.leafs[k].index]]]

\* line 96: the root is popped from the stack
returned(t) ==
  [t EXCEPT !.op = "created", !.root = <<t.stack[Len(t.stack)].hash>>,
            !.stack = SubSeq(@, 1, Len(@) - 1)]

\* createTree without a progress callback, from t to its end
RECURSIVE withoutCallback(_)
withoutCallback(t) ==
  IF t.i <= 2 ^ t.h - 1 THEN withoutCallback(pushLeaf(t))
  ELSE returned(levelled(t))

\* one pass of the loop of createTree: the key pair of leaf i, its parents,
\* and the progress callback when there is one and the timeout has elapsed
createLeaf ==
  /\ watch = "tree"
  /\ ev.op = "createTree"
  /\ ev.i <= 2 ^ ev.h - 1
  /\ \E elapsed \in BOOLEAN :
       ev' = IF ev.saveToFile /\ elapsed THEN progress(pushLeaf(ev))
             ELSE pushLeaf(ev)
  /\ UNCHANGED <<messages, branches, cursor, channelPassword, ledger,
                 transfers, signed, published, subs, stream,
                 watch, zmq, handles, calls>>

\* the end of createTree: level 0 of hashes is taken from the leafs, the
\* callback is invoked a last time, and the root is popped from the stack
createTree ==
  /\ watch = "tree"
  /\ ev.op = "createTree"
  /\ ev.i > 2 ^ ev.h - 1
  /\ ev' = returned(IF ev.saveToFile THEN progress(levelled(ev))
                    ELSE levelled(ev))
  /\ UNCHANGED <<messages, branches, cursor, channelPassword, ledger,
                 transfers, signed, published, subs, stream,
                 watch, zmq, handles, calls>>

\* the message protocol on the tree: the auth path of a leaf, the hashes at
\* its positions, and verifyMerkleTree of the leaf against the root
verifyLeaf ==
  /\ watch = "tree"
  /\ ev.op = "created"
  /\ \E index \in 0 .. (2 ^ ev.h - 1) :
       LET authPath == getAuthPath(index, ev.h)
           authPathHashes ==
             [l \in 1 .. ev.h |-> ev.hashes[l - 1][authPath[l] + 1].hash]
       IN  ev' = [op |-> "verifyMerkleTree", h |-> ev.h, index |-> index,
                  authPath |-> authPath,
                  verified |->
                    verifyMerkleTree(ev.root[1], ev.leafs[index + 1].public,
                                     index, authPathHashes)]
  /\ UNCHANGED <<messages, branches, cursor, channelPassword, ledger,
                 transfers, signed, published, subs, stream,
                 watch, zmq, handles, calls>>

\* the last line of content that is a leaf (or a node of the height) with
\* the index, if any
lastLine(content, leaf, height, index) ==
  LET found == {k \in DOMAIN content :
                  /\ (content[k].public # <<>>) = leaf
                  /\ content[k].height = height
                  /\ content[k].index = index}
  IN  IF found = {} THEN <<>>
      ELSE <<content[CHOOSE k \in found : \A j \in found : j <= k]>>

\* file.readFile: leafs[index] from the lines with a public key and
\* hashes[height][index] from the others; a cell no line has set is <<>>
readFile(content) ==
  LET leafLines == {k \in DOMAIN content : content[k].public # <<>>}
      nodeLines == DOMAIN content \ leafLines
      length(lines) ==
        IF lines = {} THEN 0
        ELSE 1 + (CHOOSE n \in {content[k].index : k \in lines} :
                    \A k \in lines : content[k].index <= n)
      levels ==
        IF nodeLines = {} THEN 0
        ELSE 1 + (CHOOSE n \in {content[k].height : k \in nodeLines} :
                    \A k \in nodeLines : content[k].height <= n)
      leafs ==
        [p \in 1 .. length(leafLines) |->
           LET e == lastLine(content, TRUE, 0, p - 1)
           IN  IF e = <<>> THEN <<>>
               ELSE [public |-> trits(e[1].public[1]),
                     private |-> trits(e[1].private[1]),
                     index |-> e[1].index, height |-> e[1].height]]
      hashes ==
        [l \in 0 .. (levels - 1) |->
           [p \in 1 .. length({k \in nodeLines : content[k].height = l}) |->
              LET e == lastLine(content, FALSE, l, p - 1)
              IN  IF e = <<>> THEN <<>>
                  ELSE [hash |-> trits(e[1].hash[1]), index |-> e[1].index,
                        height |-> e[1].height]]]
  IN  [leafs |-> leafs, hashes |-> hashes, height |-> levels - 1]

\* channelRootOrThrow: hashes[height][0].hash, or nothing when the level or
\* its first node is undefined; height is optional
channelRootOrThrow(hashes, height) ==
  IF \/ height = <<>>
     \/ height[1] \notin DOMAIN hashes
     \/ Get(hashes[height[1]], 1) = <<>>
  THEN <<>>
  ELSE <<hashes[height[1]][1].hash>>

\* the heights a caller passes to fromFile, or none
FileHeights == Opt(1 .. (MaxTreeHeight + 1))

\* RAAM.fromFile on the file the file writer has written: the height passed
\* is lowered to the stored one when it is above it, and the constructor
\* takes the channel root from hashes[height]
fromFile ==
  /\ watch = "tree"
  /\ ev.op = "created"
  /\ ev.saveToFile
  /\ \E option \in FileHeights :
       LET stored == readFile(ev.file)
           height == IF option # <<>> /\ option[1] # 0
                        /\ stored.height < option[1]
                     THEN <<stored.height>> ELSE option
           channelRoot == channelRootOrThrow(stored.hashes, height)
       IN  ev' = [op |-> "fromFile", h |-> ev.h, option |-> option,
                  created |-> [leafs |-> ev.leafs, hashes |-> ev.hashes,
                               root |-> ev.root],
                  res |-> IF channelRoot = <<>> THEN "INCOMPLETE_TREE"
                          ELSE "ok",
                  leafs |-> stored.leafs, hashes |-> stored.hashes,
                  height |-> height, channelRoot |-> channelRoot]
  /\ UNCHANGED <<messages, branches, cursor, channelPassword, ledger,
                 transfers, signed, published, subs, stream,
                 watch, zmq, handles, calls>>

NextTree ==
  \/ fromSeed
  \/ createLeaf
  \/ createTree
  \/ verifyLeaf
  \/ fromFile
InitTree ==
  /\ messages = [i \in Indexes |-> <<>>]
  /\ branches = [i \in Indexes |-> "undefined"]
  /\ cursor = 0
  /\ channelPassword = FALSE
  /\ ledger = <<>>
  /\ transfers = {}
  /\ signed = [sigs |-> {}, count |-> 0]
  /\ published = {}
  /\ subs = <<>>
  /\ stream = <<>>
  /\ ev = Unobserved
  /\ watch = "tree"
  /\ zmq = Unconnected
  /\ handles = <<>>
  /\ calls = <<>>
SpecTree == InitTree /\ [][NextTree]_vars

\* the lines of the file with a leaf (or a node of the height) of the index
linesOf(file, leaf, height, index) ==
  Cardinality({k \in DOMAIN file :
                 /\ (file[k].public # <<>>) = leaf
                 /\ file[k].height = height
                 /\ file[k].index = index})

\* C31: for every height h and leaf i of the tree createTree built, the auth
\* path of i holds at level l the index floor(i / 2^l) XOR 1, and
\* verifyMerkleTree accepts the leaf with the hashes at those positions
C31_AuthPathVerifies ==
  ev.op = "verifyMerkleTree" =>
    /\ Len(ev.authPath) = ev.h
    /\ \A l \in 1 .. ev.h :
         LET floor == ev.index \div (2 ^ (l - 1))
         IN  ev.authPath[l] = floor + 1 - 2 * (floor % 2)
    /\ ev.verified

\* the last leaf of the highest tree has been verified
C31_Witness ==
  /\ ev.op = "verifyMerkleTree"
  /\ ev.h = MaxTreeHeight
  /\ ev.index = 2 ^ ev.h - 1
  /\ ev.verified

\* C38: for h >= 1, after the last leaf the stack holds one entry, which is
\* hashes[h][0]; at the end every level l holds 2^(h-l) nodes whose index is
\* their position, and node (l, i) is the hash of the nodes (l-1, 2i) and
\* (l-1, 2i+1)
C38_TreeIsComplete ==
  /\ ev.op = "createTree" /\ ev.h >= 1 /\ ev.i = 2 ^ ev.h =>
       /\ Len(ev.stack) = 1
       /\ Len(ev.hashes[ev.h]) = 1
       /\ ev.stack[1] = ev.hashes[ev.h][1]
  /\ ev.op = "created" /\ ev.h >= 1 =>
       /\ ev.root = <<ev.hashes[ev.h][1].hash>>
       /\ \A l \in 0 .. ev.h :
            /\ Len(ev.hashes[l]) = 2 ^ (ev.h - l)
            /\ \A p \in 1 .. Len(ev.hashes[l]) :
                 /\ ev.hashes[l][p].index = p - 1
                 /\ ev.hashes[l][p].height = l
                 /\ l >= 1 =>
                      /\ 2 * p <= Len(ev.hashes[l - 1])
                      /\ ev.hashes[l][p].hash =
                           <<0 - 1>> \o ev.hashes[l - 1][2 * p - 1].hash
                             \o ev.hashes[l - 1][2 * p].hash \o <<0 - 2>>

\* the highest tree has been built to its end
C38_Witness ==
  /\ ev.op = "created"
  /\ ev.h = MaxTreeHeight
  /\ Len(ev.leafs) = 2 ^ MaxTreeHeight

\* C33: whenever the progress callback fires, over all its invocations it
\* receives every leaf once and every node of every level once, and root,
\* leafs and hashes are those of createTree without a callback
C33_EveryNodeReportedOnce ==
  ev.op = "created" =>
    /\ LET plain == withoutCallback(started(ev.h, FALSE))
       IN  /\ ev.root = plain.root
           /\ ev.leafs = plain.leafs
           /\ ev.hashes = plain.hashes
    /\ ev.saveToFile =>
         /\ \A k \in DOMAIN ev.leafs :
              linesOf(ev.file, TRUE, 0, ev.leafs[k].index) = 1
         /\ \A l \in DOMAIN ev.hashes : \A p \in DOMAIN ev.hashes[l] :
              linesOf(ev.file, FALSE, l, ev.hashes[l][p].index) = 1
         /\ Len(ev.file) = Len(ev.leafs) + Len(flatten(ev.hashes, 0))
         /\ readFile(ev.file).leafs = ev.leafs
         /\ readFile(ev.file).hashes = ev.hashes

\* the callback has fired during the loop and again at the end
C33_Witness ==
  /\ ev.op = "created"
  /\ ev.saveToFile
  /\ ev.h = MaxTreeHeight
  /\ ev.invoked > 2

\* C37: fromFile on the key file of a complete tree of height h returns a
\* publisher with the leafs, hashes, height and channel root of the tree,
\* also when no height is passed
C37_FromFileRestoresTree ==
  ev.op = "fromFile" /\ ev.option \in {<<>>, <<ev.h>>} =>
    /\ ev.res = "ok"
    /\ ev.leafs = ev.created.leafs
    /\ ev.hashes = ev.created.hashes
    /\ ev.height = <<ev.h>>
    /\ ev.channelRoot = ev.created.root

\* ------------------------------------------------------ overlapping publish
\* A publisher whose callers only call publish, never name an index, and do
\* not wait for one publish to end before they start the next.
CursorRequests == {r \in PublishRequests : r.index = <<>>}
NextOverlap ==
  \/ publish(CursorRequests)
  \/ publishResolved
  \/ publishRejected
InitOverlap == Init /\ watch = "publisher"
SpecOverlap == InitOverlap /\ [][NextOverlap]_vars

\* C35: two publish calls without an index that were started before either
\* had completed do not both sign and submit a message for one index
C35_OverlappingPublishesDiffer ==
  \A t1 \in transfers, t2 \in transfers :
    /\ t1.stage = "sending"
    /\ t2.stage = "sending"
    /\ t1.index = t2.index
    => t1 = t2

\* C36: during fetch and syncChannel the read callback is invoked once for
\* every index queried on the ledger, with that index as its index argument
C36_CallbackGetsQueriedIndex ==
  ev.op \in {"fetch", "syncChannel"} =>
    ev.called = [k \in 1 .. Len(ev.q) |-> <<ev.q[k]>>]

\* ------------------------------------------------- subscriptions, any bundle
\* A reader with subscriptions on a ledger anybody attaches bundles to:
\* bundles of the channel and bundles that do not parse with its key.
NextStream ==
  \/ attach
  \/ subscribe(IndexRequests, {FALSE}, MaxSubs)
  \/ subscribeIndex(Indexes, {FALSE}, MaxSubs)
  \/ unsubscribe
  \/ deliver
InitStream == Init /\ watch = "subscribe"
SpecStream == InitStream /\ [][NextStream]_vars

\* the callbacks registered at the index of bundle b, none of which parses it
unparsedAt(b) ==
  {k \in DOMAIN subs :
     /\ subs[k].index = b.index
     /\ processBundle(b, subs[k].key, <<Security>>) # "ok"}

\* C34: when a bundle that arrives on a subscribed address fails to parse,
\* the callback is invoked with a skipped entry and neither error nor
\* message, nothing is raised out of the stream handler and the subscription
\* stays active
C34_ParseFailureSkipped ==
  [][(/\ stream # <<>>
      /\ ev'.op = "deliver"
      /\ unparsedAt(ledger[Head(stream)]) # {}
      /\ \A k \in DOMAIN subs :
           subs[k].index = ledger[Head(stream)].index
             => k \in unparsedAt(ledger[Head(stream)]))
       => /\ ev'.res = "ok"
          /\ ev'.idx = Cardinality(unparsedAt(ledger[Head(stream)]))
          /\ subs' = subs]_vars
====
